---- MODULE Spec2Model ----
(***************************************************************************)
(* A model of the retrieval pipeline of the Architectural RAG system:      *)
(*   GeminiEmbedder.embed_texts      (src/src/embedding/gemini_embedder.py)*)
(*   ChromaManager                   (src/src/vector_store/chroma_manager.py)*)
(*   QueryGenerator                  (src/src/rag_pipeline/query_generator.py)*)
(*   the retrieval loop of run_full_rag_pipeline (src/run_query_service.py)*)
(*   AdvancedTextChunker             (src/src/data_ingestion/chunking.py)  *)
(* Each component has its own specification (SpecEmbed and SpecEmbedFair,  *)
(* SpecIndex, SpecRetrieve, SpecPlan, SpecChunk and SpecChunkId, SpecPipe);*)
(* the variables of the other components stay at their initial values.     *)
(***************************************************************************)
EXTENDS Integers, Sequences, FiniteSets, TLC

VARIABLES
    emb,        \* the frame of the running embed_texts call
    embHist,    \* history of that call: remote calls and failures per batch
    collection, \* the Chroma collection: id -> stored record
    strictAdd,  \* whether this build's collection.add raises on a stored id
    last,       \* the last ChromaManager operation, its arguments and outcome
    runs,       \* the retrieval loop, run twice over the same query list
    rag_queries,\* the planned query list handed to the retrieval loop
    plan,       \* the planner: its input RequirementSet and its outcome
    chunker,    \* the AdvancedTextChunker: its arguments, its calls' results
    pipe        \* run_full_rag_pipeline: its inputs and the steps it has taken

vars == <<emb, embHist, collection, strictAdd, last, runs, rag_queries, plan,
          chunker, pipe>>

(***************************************************************************)
(* Bounds of the model.                                                    *)
(***************************************************************************)
MaxTexts == 3
MaxBatch == 2
MaxRetries == 2
MaxDocs == 2
MaxAddBatch == 2
MaxQueries == 2
MaxRooms == 1
MaxPageLen == 4
MaxChunk == 3

Min(a, b) == IF a < b THEN a ELSE b

SeqsUpTo(S, n) == UNION {[1..m -> S] : m \in 0..n}

(***************************************************************************)
(* GeminiEmbedder.embed_texts                                              *)
(***************************************************************************)
\* Python's None in a list of embeddings; every vector is a positive number.
None == 0

Text == {1, 2}
TaskType == {"RETRIEVAL_DOCUMENT", "RETRIEVAL_QUERY"}

\* The vector the remote model returns for one text under a task type.
Vec(t, task_type) == 10 * t + (IF task_type = "RETRIEVAL_QUERY" THEN 1 ELSE 0)

\* A vector of a reply that belongs to no text of the batch.
ExtraVec == 99

\* texts[i:i + batch_size], i counted from 0 as in the source.
SliceAll(s, i, n) == s
Slice(s, i, n) == SubSeq(s, i + 1, Min(i + n, Len(s)))

\* What genai.embed_content can do for one batch: raise, return one vector
\* per text, or return a list that is one vector short or one vector long.
RemoteOutcomes(batch_texts, task_type) ==
    LET exact == [j \in 1..Len(batch_texts) |-> Vec(batch_texts[j], task_type)]
    IN  { [exc |-> TRUE,  embedding |-> <<>>],
          [exc |-> FALSE, embedding |-> exact],
          [exc |-> FALSE, embedding |-> SubSeq(exact, 1, Len(exact) - 1)],
          [exc |-> FALSE, embedding |-> Append(exact, ExtraVec)] }

WellFormed(o, batch_texts) == o.exc \/ Len(o.embedding) = Len(batch_texts)

\* Where the j-th vector (from 0) of a batch starting at i is written.
PlaceIndexBug(i, j) == j
PlaceIndex(i, j) == i + j

\* for j, embedding in enumerate(batch_embeddings): all_embeddings[i + j] = embedding
\* An index past the end raises IndexError after the earlier writes are done.
PlaceEmbeddings(all, i, batch_embeddings) ==
    LET room == Len(all) - i
        nOk  == Min(Len(batch_embeddings), room)
    IN  [ all    |-> [p \in 1..Len(all) |->
                        IF \E j \in 0..(nOk - 1) : PlaceIndex(i, j) + 1 = p
                        THEN batch_embeddings[
                               (CHOOSE j \in 0..(nOk - 1) : PlaceIndex(i, j) + 1 = p) + 1]
                        ELSE all[p]],
          raised |-> Len(batch_embeddings) > room ]

NumBatches(n, batch_size) == (n + batch_size - 1) \div batch_size

\* The batch (from 1) that starts at offset i.
BatchOf(i, batch_size) == i \div batch_size + 1

EmbIdle ==
    [ pc |-> "idle", texts |-> <<>>, task_type |-> "RETRIEVAL_DOCUMENT",
      batch_size |-> 1, max_retries |-> 0, initial_backoff |-> 1,
      i |-> 0, current_retry |-> 0, all_embeddings |-> <<>> ]

EmbHistIdle == [ calls |-> <<>>, fails |-> <<>>, malformed |-> FALSE, log |-> <<>> ]

\* The values of initial_backoff, in seconds.
InitialBackoffs == {1, 3}

\* current_retry += 1
CountRetry(current_retry) == current_retry + 1

\* backoff_time = initial_backoff * (2 ** (current_retry - 1))
BackoffTimeConstant(initial_backoff, current_retry) == initial_backoff
BackoffTime(initial_backoff, current_retry) == initial_backoff * 2 ^ (current_retry - 1)

\* The while condition of the retry loop.
RetryGuard(current_retry, max_retries) == current_retry < max_retries

\* The for loop moves to the next batch, or the function returns.
NextBatchSame(e, all) == [e EXCEPT !.current_retry = 0, !.all_embeddings = all]
NextBatch(e, all) ==
    LET ni == e.i + e.batch_size
    IN  [e EXCEPT !.i = ni, !.current_retry = 0, !.all_embeddings = all,
                  !.pc = IF ni >= Len(e.texts) THEN "done" ELSE "embedding"]

\* The frame of embed_texts at its first batch; the empty input returns at once.
EmbedFrame(texts, task_type, batch_size, max_retries) ==
    [ pc |-> IF texts = <<>> THEN "done" ELSE "embedding",
      texts |-> texts, task_type |-> task_type,
      batch_size |-> batch_size, max_retries |-> max_retries,
      initial_backoff |-> 1, i |-> 0, current_retry |-> 0,
      all_embeddings |-> [p \in 1..Len(texts) |-> None] ]

\* The defaults of embed_texts.
DefaultBatchSize == 100
DefaultMaxRetries == 3

\* The values of max_retries: the small ones and the default.
RetryLimits == 0..MaxRetries \cup {DefaultMaxRetries}

\* The lists of texts handed to embed_texts: the text at position p is text
\* p, so that the texts of one call all differ.
TextLists == { [p \in 1..m |-> p] : m \in 0..MaxTexts }

\* embed_texts is called.
EmbedStart ==
    /\ emb.pc = "idle"
    /\ \E texts \in TextLists, task_type \in TaskType,
          batch_size \in 1..MaxBatch, max_retries \in RetryLimits,
          initial_backoff \in InitialBackoffs :
         /\ emb' = [EmbedFrame(texts, task_type, batch_size, max_retries)
                      EXCEPT !.initial_backoff = initial_backoff]
         /\ embHist' = [ calls |-> [b \in 1..NumBatches(Len(texts), batch_size) |-> 0],
                         fails |-> [b \in 1..NumBatches(Len(texts), batch_size) |-> 0],
                         malformed |-> FALSE, log |-> <<>> ]
    /\ UNCHANGED <<collection, strictAdd, last, runs, rag_queries, plan,
                 chunker, pipe>>

\* One pass of the retry loop on frame e, the remote call ending as o: a
\* reply is placed; an exception (the remote's, or the IndexError of a reply
\* that runs past the list) counts a retry and, short of max_retries, stays
\* on the batch.
Placed(e, o) ==
    IF o.exc THEN [all |-> e.all_embeddings, raised |-> TRUE]
    ELSE PlaceEmbeddings(e.all_embeddings, e.i, o.embedding)

AttemptResult(e, o) ==
    LET placed == Placed(e, o)
        retry  == CountRetry(e.current_retry)
    IN  IF ~placed.raised
        THEN NextBatch(e, placed.all)
        ELSE IF retry >= e.max_retries
             THEN NextBatch(e, placed.all)
             ELSE [e EXCEPT !.current_retry = retry, !.all_embeddings = placed.all]

\* The sleep of one pass of the retry loop, if it sleeps: only a pass that
\* raised and is not the last one of its batch reaches time.sleep.
SleepOf(e, o) ==
    LET retry == CountRetry(e.current_retry)
    IN  IF Placed(e, o).raised /\ ~(retry >= e.max_retries)
        THEN << [ ev |-> "sleep", batch |-> BatchOf(e.i, e.batch_size),
                  time |-> BackoffTime(e.initial_backoff, retry) ] >>
        ELSE << >>

EmbedAttempt ==
    /\ emb.pc = "embedding"
    /\ RetryGuard(emb.current_retry, emb.max_retries)
    /\ LET batch_texts == Slice(emb.texts, emb.i, emb.batch_size)
           b == BatchOf(emb.i, emb.batch_size)
       IN  \E o \in RemoteOutcomes(batch_texts, emb.task_type) :
             /\ emb' = AttemptResult(emb, o)
             /\ embHist' = [embHist EXCEPT
                              !.calls[b] = @ + 1,
                              !.fails[b] = @ + (IF Placed(emb, o).raised THEN 1 ELSE 0),
                              !.malformed = @ \/ ~WellFormed(o, batch_texts),
                              !.log = Append(@, [ ev |-> "call", batch |-> b,
                                                  content |-> batch_texts,
                                                  raised |-> Placed(emb, o).raised ])
                                        \o SleepOf(emb, o)]
    /\ UNCHANGED <<collection, strictAdd, last, runs, rag_queries, plan,
                 chunker, pipe>>

\* The retry loop is not entered at all (max_retries = 0): the batch is skipped.
EmbedSkip ==
    /\ emb.pc = "embedding"
    /\ ~RetryGuard(emb.current_retry, emb.max_retries)
    /\ emb' = NextBatch(emb, emb.all_embeddings)
    /\ UNCHANGED <<embHist, collection, strictAdd, last, runs, rag_queries, plan,
                 chunker, pipe>>

\* Every list a call of embed_texts can return from frame e on, over all
\* the ways its remote calls can end.
RECURSIVE EmbedTextsResults(_)
EmbedTextsResults(e) ==
    IF e.pc = "done" THEN {e.all_embeddings}
    ELSE IF ~RetryGuard(e.current_retry, e.max_retries)
         THEN EmbedTextsResults(NextBatch(e, e.all_embeddings))
         ELSE UNION { EmbedTextsResults(AttemptResult(e, o)) :
                        o \in RemoteOutcomes(Slice(e.texts, e.i, e.batch_size),
                                             e.task_type) }


(***************************************************************************)
(* ChromaManager                                                           *)
(***************************************************************************)
Id == {"a", "b"}

EmptyCollection == [id \in {} |-> 0]

LastNone == [op |-> "none"]

\* The arrays one ingestion call hands to add_documents for text t: the
\* embedding is the DOCUMENT-mode vector of the text.
EmbeddingOf(t) == Vec(t, "RETRIEVAL_DOCUMENT")
MetadataOf(t) == [source_document |-> "book", original_page_number |-> t]

HasDuplicates(s) == \E j, k \in 1..Len(s) : j # k /\ s[j] = s[k]

Range(s) == { s[j] : j \in 1..Len(s) }

\* chromadb's collection.add on one sub-batch. It raises, writing nothing, on
\* a store error, on arrays of unequal length and on a repeated id in the
\* batch. An id that is already stored is never overwritten: this build
\* either raises on it (strictAdd) or leaves the stored record and adds the
\* other ids.
CollectionAddDeleteFirst(coll, ids, embeddings, metadatas, documents, store_fails) ==
    LET raised ==
            \/ store_fails
            \/ ~(Len(ids) = Len(embeddings) /\ Len(ids) = Len(metadatas)
                   /\ Len(ids) = Len(documents))
            \/ HasDuplicates(ids)
        at(id) == CHOOSE j \in 1..Len(ids) : ids[j] = id
    IN  [ coll   |-> IF raised THEN coll
                     ELSE [id \in (DOMAIN coll \ Range(ids))
                                    \cup (Range(ids) \ DOMAIN coll) |->
                             IF id \in DOMAIN coll THEN coll[id]
                             ELSE [ embedding |-> embeddings[at(id)],
                                    metadata  |-> metadatas[at(id)],
                                    document  |-> documents[at(id)] ]],
          raised |-> raised ]
CollectionAdd(coll, ids, embeddings, metadatas, documents, store_fails) ==
    LET raised ==
            \/ store_fails
            \/ ~(Len(ids) = Len(embeddings) /\ Len(ids) = Len(metadatas)
                   /\ Len(ids) = Len(documents))
            \/ HasDuplicates(ids)
            \/ (strictAdd /\ Range(ids) \cap DOMAIN coll # {})
        at(id) == CHOOSE j \in 1..Len(ids) : ids[j] = id
    IN  [ coll   |-> IF raised THEN coll
                     ELSE [id \in DOMAIN coll \cup Range(ids) |->
                             IF id \in DOMAIN coll THEN coll[id]
                             ELSE [ embedding |-> embeddings[at(id)],
                                    metadata  |-> metadatas[at(id)],
                                    document  |-> documents[at(id)] ]],
          raised |-> raised ]

\* if not (len(ids) == len(embeddings) == len(metadatas) == len(documents))
LengthsMatchIdsOnly(args) == Len(args.ids) = Len(args.embeddings)
LengthsMatch(args) ==
    /\ Len(args.ids) = Len(args.embeddings)
    /\ Len(args.embeddings) = Len(args.metadatas)
    /\ Len(args.metadatas) = Len(args.documents)

\* The sub-batch loop of add_documents from offset i on; fail is the set of
\* sub-batches (from 1) that meet a store error. A sub-batch that raises is
\* reported and the loop goes on.
RECURSIVE AddBatches(_, _, _, _)
AddBatches(coll, args, i, fail) ==
    IF i >= Len(args.ids)
    THEN [ coll |-> coll, num_added_successfully |-> 0, raised |-> 0,
           attempts |-> 0, raised_batches |-> {} ]
    ELSE LET r == CollectionAdd(coll,
                      Slice(args.ids, i, args.batch_size),
                      Slice(args.embeddings, i, args.batch_size),
                      Slice(args.metadatas, i, args.batch_size),
                      Slice(args.documents, i, args.batch_size),
                      BatchOf(i, args.batch_size) \in fail)
             rest == AddBatches(r.coll, args, i + args.batch_size, fail)
         IN  [ coll |-> rest.coll,
               num_added_successfully |->
                   rest.num_added_successfully
                     + (IF r.raised THEN 0
                        ELSE Len(Slice(args.ids, i, args.batch_size))),
               raised   |-> rest.raised + (IF r.raised THEN 1 ELSE 0),
               attempts |-> rest.attempts + 1,
               raised_batches |->
                   rest.raised_batches
                     \cup (IF r.raised THEN {BatchOf(i, args.batch_size)} ELSE {}) ]

\* add_documents returns before the loop: unequal lengths or no ids.
ReturnsEarly(args) == ~LengthsMatch(args) \/ args.ids = <<>>

\* The whole of add_documents on a collection.
AddDocumentsResult(coll, args, fail) ==
    IF ReturnsEarly(args)
    THEN [ coll |-> coll, num_added_successfully |-> 0, raised |-> 0,
           attempts |-> 0, raised_batches |-> {} ]
    ELSE AddBatches(coll, args, 0, fail)

\* The closing print of add_documents calls collection.count() outside any
\* try: what count() raises there leaves add_documents.
ClosingCountEscapes(args, count_raises) == ~ReturnsEarly(args) /\ count_raises

\* The argument lists of add_documents: n ids, and one text t for the call;
\* one of the other three arrays may be one entry short.
AddArgs ==
    { [ ids        |-> ids,
        embeddings |-> [j \in 1..(Len(ids) - short[1]) |-> EmbeddingOf(t)],
        metadatas  |-> [j \in 1..(Len(ids) - short[2]) |-> MetadataOf(t)],
        documents  |-> [j \in 1..(Len(ids) - short[3]) |-> t],
        batch_size |-> batch_size ] :
      ids \in SeqsUpTo(Id, MaxDocs), t \in Text, batch_size \in 1..MaxAddBatch,
      short \in {<<0, 0, 0>>, <<1, 0, 0>>, <<0, 1, 0>>, <<0, 0, 1>>} }

\* What one add_documents call leaves behind: the collection, and the record
\* of the call. repeat says that the call before it had the same arguments.
AddDocumentsCall(args, fail, repeat, count_raises) ==
    LET r == AddDocumentsResult(collection, args, fail)
    IN  /\ collection' = r.coll
        /\ last' = [ op |-> "add", args |-> args, pre |-> collection,
                     raised |-> r.raised, attempts |-> r.attempts,
                     raised_batches |-> r.raised_batches,
                     num_added_successfully |-> r.num_added_successfully,
                     escaped |-> ClosingCountEscapes(args, count_raises),
                     repeat |-> repeat,
                     prev_raised |-> IF repeat THEN last.raised ELSE 0 ]

\* add_documents, called after an operation other than add_documents.
AddDocuments ==
    /\ last.op # "add"
    /\ \E args \in AddArgs :
         \E fail \in SUBSET (1..NumBatches(Len(args.ids), args.batch_size)),
            count_raises \in BOOLEAN :
            AddDocumentsCall(args, fail, FALSE, count_raises)
    /\ UNCHANGED <<emb, embHist, strictAdd, runs, rag_queries, plan,
                 chunker, pipe>>

\* add_documents, called again with the arguments of the call before it.
AddDocumentsAgain ==
    /\ last.op = "add"
    /\ \E fail \in SUBSET (1..NumBatches(Len(last.args.ids), last.args.batch_size)),
          count_raises \in BOOLEAN :
          AddDocumentsCall(last.args, fail, TRUE, count_raises)
    /\ UNCHANGED <<emb, embHist, strictAdd, runs, rag_queries, plan,
                 chunker, pipe>>

\* get_document_by_id on a collection whose get does not raise.
GetDocumentResult(coll, doc_id) ==
    IF doc_id \in DOMAIN coll
    THEN [ found |-> TRUE, id |-> doc_id,
           document |-> coll[doc_id].document, metadata |-> coll[doc_id].metadata ]
    ELSE [ found |-> FALSE ]

\* get_document_by_id: an exception of collection.get is caught and None returned.
GetDocumentById ==
    \E doc_id \in Id, get_raises \in BOOLEAN :
      /\ last' = [ op |-> "get", doc_id |-> doc_id, raised |-> get_raises,
                   result |-> IF get_raises THEN [found |-> FALSE]
                              ELSE GetDocumentResult(collection, doc_id) ]
      /\ UNCHANGED <<emb, embHist, collection, strictAdd, runs, rag_queries, plan,
                 chunker, pipe>>

Count(coll) == Cardinality(DOMAIN coll)

\* count(): the number of stored records; what collection.count() raises
\* reaches the caller.
CountCall ==
    /\ \E count_raises \in BOOLEAN :
         last' = [ op |-> "count", raised |-> count_raises,
                   result |-> IF count_raises THEN 0 ELSE Count(collection) ]
    /\ UNCHANGED <<emb, embHist, collection, strictAdd, runs, rag_queries, plan,
                   chunker, pipe>>

\* clear_collection prints the count, fetches every id and deletes them.
ClearCollection ==
    /\ collection' = EmptyCollection
    /\ last' = [ op |-> "clear", reported_count |-> Count(collection) ]
    /\ UNCHANGED <<emb, embHist, strictAdd, runs, rag_queries, plan,
                 chunker, pipe>>

(***************************************************************************)
(* The retrieval loop of run_full_rag_pipeline                             *)
(***************************************************************************)
\* Config.RAG_NUM_RETRIEVED_CHUNKS
RAG_NUM_RETRIEVED_CHUNKS == 5

\* A query text is a number, as a text handed to the embedder is.
Query == 1..MaxQueries

Distance(u, v) == (u - v) * (u - v)

\* collection.query for one query embedding: every ranking of the nearest
\* n_results records by ascending distance (records at equal distance in
\* either order), as the parallel arrays chromadb returns.
RankedIds(coll, query_embedding, n_results) ==
    LET m == Min(n_results, Count(coll))
        d(id) == Distance(coll[id].embedding, query_embedding)
    IN  { s \in [1..m -> DOMAIN coll] :
            /\ \A j, k \in 1..m : j < k => (s[j] # s[k] /\ d(s[j]) <= d(s[k]))
            /\ \A id \in DOMAIN coll \ Range(s) : \A j \in 1..m : d(s[j]) <= d(id) }

QueryResults(coll, query_embedding, n_results) ==
    { [ ids       |-> <<s>>,
        documents |-> <<[j \in 1..Len(s) |-> coll[s[j]].document]>>,
        metadatas |-> <<[j \in 1..Len(s) |-> coll[s[j]].metadata]>>,
        distances |-> <<[j \in 1..Len(s) |->
                           Distance(coll[s[j]].embedding, query_embedding)]>> ] :
      s \in RankedIds(coll, query_embedding, n_results) }

\* The contexts built from one result of query_collection.
ContextsOfReversed(retrieved_docs) ==
    [ j \in 1..Len(retrieved_docs.ids[1]) |->
        LET k == Len(retrieved_docs.ids[1]) + 1 - j
        IN  [ id       |-> retrieved_docs.ids[1][k],
              text     |-> retrieved_docs.documents[1][k],
              metadata |-> retrieved_docs.metadatas[1][k],
              distance |-> retrieved_docs.distances[1][k] ] ]
ContextsOf(retrieved_docs) ==
    [ j \in 1..Len(retrieved_docs.ids[1]) |->
        [ id       |-> retrieved_docs.ids[1][j],
          text     |-> retrieved_docs.documents[1][j],
          metadata |-> retrieved_docs.metadatas[1][j],
          distance |-> retrieved_docs.distances[1][j] ] ]

\* current_query_contexts = [] at the start of each query's retrieval.
FreshContextsCarried(previous) == previous
FreshContexts(previous) == <<>>

\* Where the loop goes after a query whose embedding is absent: continue.
AfterAbsentEmbeddingBreak(pos, n) == n
AfterAbsentEmbedding(pos, n) == pos + 1

EmptyContexts == [q \in {} |-> <<>>]

\* One run of the loop: pos queries are done, all_retrieved_contexts maps the
\* queries recorded so far, outcome notes how each query's retrieval went and
\* index_queries the calls of query_collection made for it.
RunIdle ==
    [ pos |-> 0, all_retrieved_contexts |-> EmptyContexts,
      outcome |-> EmptyContexts, index_queries |-> EmptyContexts,
      current_query_contexts |-> <<>> ]

RunsIdle == [r \in 1..2 |-> RunIdle]

RunDone(run) == run.pos >= Len(rag_queries)

\* all_retrieved_contexts[query_text] = contexts
Record(run, query_text, contexts, how, index_queries, pos) ==
    [ pos |-> pos,
      all_retrieved_contexts |->
          [q \in DOMAIN run.all_retrieved_contexts \cup {query_text} |->
              IF q = query_text THEN contexts ELSE run.all_retrieved_contexts[q]],
      outcome |->
          [q \in DOMAIN run.outcome \cup {query_text} |->
              IF q = query_text THEN how ELSE run.outcome[q]],
      index_queries |->
          [q \in DOMAIN run.index_queries \cup {query_text} |->
              IF q = query_text THEN index_queries ELSE run.index_queries[q]],
      current_query_contexts |-> contexts ]

\* query_collection returned None: collection.query raised.
NoneResult == [ids |-> <<>>, documents |-> <<>>, metadatas |-> <<>>, distances |-> <<>>]

\* if retrieved_docs and retrieved_docs.get('ids') and retrieved_docs['ids'][0]
HasMatches(retrieved_docs) ==
    retrieved_docs.ids # <<>> /\ retrieved_docs.ids[1] # <<>>

\* The body of the loop for the next query of run r: embed the query; an
\* absent embedding records [] and continues; otherwise query the collection
\* (None on an exception) and record the contexts of its matches.
RetrieveQuery(r) ==
    /\ ~RunDone(runs[r])
    /\ LET run == runs[r]
           query_text == rag_queries[run.pos + 1]
       IN  \E query_embedding_list \in
                 EmbedTextsResults(EmbedFrame(<<query_text>>, "RETRIEVAL_QUERY",
                                              DefaultBatchSize, DefaultMaxRetries)) :
             IF query_embedding_list = <<>> \/ query_embedding_list[1] = None
             THEN runs' = [runs EXCEPT ![r] =
                             Record(run, query_text, <<>>,
                                    [embedded |-> FALSE, retrieved_docs |-> NoneResult],
                                    <<>>,
                                    AfterAbsentEmbedding(run.pos, Len(rag_queries)))]
             ELSE \E retrieved_docs \in
                       {NoneResult} \cup
                       QueryResults(collection, query_embedding_list[1],
                                    RAG_NUM_RETRIEVED_CHUNKS) :
                    runs' = [runs EXCEPT ![r] =
                               Record(run, query_text,
                                      FreshContexts(run.current_query_contexts)
                                         \o (IF HasMatches(retrieved_docs)
                                             THEN ContextsOf(retrieved_docs)
                                             ELSE <<>>),
                                      [embedded |-> TRUE, retrieved_docs |-> retrieved_docs],
                                      << [ query_embeddings |-> <<query_embedding_list[1]>>,
                                           n_results |-> RAG_NUM_RETRIEVED_CHUNKS ] >>,
                                      run.pos + 1)]
    /\ UNCHANGED <<emb, embHist, collection, strictAdd, last, rag_queries, plan,
                 chunker, pipe>>

\* query_collection, called on its own: None for no query embedding and when
\* collection.query raises, else the matches of the one query embedding.
QueryCollection ==
    /\ \E t \in Text, given \in BOOLEAN, query_raises \in BOOLEAN :
         \E retrieved_docs \in
               IF ~given \/ query_raises THEN {NoneResult}
               ELSE QueryResults(collection, Vec(t, "RETRIEVAL_QUERY"),
                                 RAG_NUM_RETRIEVED_CHUNKS) :
           last' = [ op |-> "query", raised |-> given /\ query_raises,
                     returned_none |-> ~given \/ query_raises,
                     ids |-> retrieved_docs.ids ]
    /\ UNCHANGED <<emb, embHist, collection, strictAdd, runs, rag_queries, plan,
                   chunker, pipe>>

\* What sorted(list(set(queries))) can be: a strictly ascending list.
PlannedQueryLists ==
    { s \in SeqsUpTo(Query, MaxQueries) : \A j, k \in 1..Len(s) : j < k => s[j] < s[k] }

\* The collections the loop runs against: record a holds text 1, b text 2.
StoredRecord(t) ==
    [embedding |-> EmbeddingOf(t), metadata |-> MetadataOf(t), document |-> t]

RetrievalCollections ==
    { [id \in S |-> StoredRecord(IF id = "a" THEN 1 ELSE 2)] : S \in SUBSET Id }

(***************************************************************************)
(* QueryGenerator                                                          *)
(***************************************************************************)
\* A Python string is the sequence of its code points; Lit gives the string
\* of each literal of the source and of each value of the bounded inputs.
Lit(s) ==
    CASE s = "None" ->
           <<78, 111, 110, 101>>
      [] s = "building" ->
           <<98, 117, 105, 108, 100, 105, 110, 103>>
      [] s = "room" ->
           <<114, 111, 111, 109>>
      [] s = "" ->
           <<>>
      [] s = "General design standards for a " ->
           <<71, 101, 110, 101, 114, 97, 108, 32, 100, 101, 115, 105, 103, 110, 32, 115, 116, 97, 110, 100, 97, 114, 100, 115, 32, 102, 111, 114, 32, 97, 32>>
      [] s = " " ->
           <<32>>
      [] s = "Space planning considerations for a " ->
           <<83, 112, 97, 99, 101, 32, 112, 108, 97, 110, 110, 105, 110, 103, 32, 99, 111, 110, 115, 105, 100, 101, 114, 97, 116, 105, 111, 110, 115, 32, 102, 111, 114, 32, 97, 32>>
      [] s = " sq ft " ->
           <<32, 115, 113, 32, 102, 116, 32>>
      [] s = "Standards or solutions for: " ->
           <<83, 116, 97, 110, 100, 97, 114, 100, 115, 32, 111, 114, 32, 115, 111, 108, 117, 116, 105, 111, 110, 115, 32, 102, 111, 114, 58, 32>>
      [] s = " in a " ->
           <<32, 105, 110, 32, 97, 32>>
      [] s = "Standard dimensions and layout for a " ->
           <<83, 116, 97, 110, 100, 97, 114, 100, 32, 100, 105, 109, 101, 110, 115, 105, 111, 110, 115, 32, 97, 110, 100, 32, 108, 97, 121, 111, 117, 116, 32, 102, 111, 114, 32, 97, 32>>
      [] s = "Functional requirements for a " ->
           <<70, 117, 110, 99, 116, 105, 111, 110, 97, 108, 32, 114, 101, 113, 117, 105, 114, 101, 109, 101, 110, 116, 115, 32, 102, 111, 114, 32, 97, 32>>
      [] s = "kitchen" ->
           <<107, 105, 116, 99, 104, 101, 110>>
      [] s = "bath" ->
           <<98, 97, 116, 104>>
      [] s = "washroom" ->
           <<119, 97, 115, 104, 114, 111, 111, 109>>
      [] s = "bedroom" ->
           <<98, 101, 100, 114, 111, 111, 109>>
      [] s = "Electrical standards for a residential kitchen" ->
           <<69, 108, 101, 99, 116, 114, 105, 99, 97, 108, 32, 115, 116, 97, 110, 100, 97, 114, 100, 115, 32, 102, 111, 114, 32, 97, 32, 114, 101, 115, 105, 100, 101, 110, 116, 105, 97, 108, 32, 107, 105, 116, 99, 104, 101, 110>>
      [] s = "Plumbing standards for a residential kitchen" ->
           <<80, 108, 117, 109, 98, 105, 110, 103, 32, 115, 116, 97, 110, 100, 97, 114, 100, 115, 32, 102, 111, 114, 32, 97, 32, 114, 101, 115, 105, 100, 101, 110, 116, 105, 97, 108, 32, 107, 105, 116, 99, 104, 101, 110>>
      [] s = "Ventilation standards for a kitchen" ->
           <<86, 101, 110, 116, 105, 108, 97, 116, 105, 111, 110, 32, 115, 116, 97, 110, 100, 97, 114, 100, 115, 32, 102, 111, 114, 32, 97, 32, 107, 105, 116, 99, 104, 101, 110>>
      [] s = "Plumbing standards for a bathroom" ->
           <<80, 108, 117, 109, 98, 105, 110, 103, 32, 115, 116, 97, 110, 100, 97, 114, 100, 115, 32, 102, 111, 114, 32, 97, 32, 98, 97, 116, 104, 114, 111, 111, 109>>
      [] s = "Electrical safety standards for bathrooms" ->
           <<69, 108, 101, 99, 116, 114, 105, 99, 97, 108, 32, 115, 97, 102, 101, 116, 121, 32, 115, 116, 97, 110, 100, 97, 114, 100, 115, 32, 102, 111, 114, 32, 98, 97, 116, 104, 114, 111, 111, 109, 115>>
      [] s = "Accessibility standards for bathrooms" ->
           <<65, 99, 99, 101, 115, 115, 105, 98, 105, 108, 105, 116, 121, 32, 115, 116, 97, 110, 100, 97, 114, 100, 115, 32, 102, 111, 114, 32, 98, 97, 116, 104, 114, 111, 111, 109, 115>>
      [] s = "Lighting standards for a bedroom" ->
           <<76, 105, 103, 104, 116, 105, 110, 103, 32, 115, 116, 97, 110, 100, 97, 114, 100, 115, 32, 102, 111, 114, 32, 97, 32, 98, 101, 100, 114, 111, 111, 109>>
      [] s = "Design considerations for a " ->
           <<68, 101, 115, 105, 103, 110, 32, 99, 111, 110, 115, 105, 100, 101, 114, 97, 116, 105, 111, 110, 115, 32, 102, 111, 114, 32, 97, 32>>
      [] s = " with attribute: " ->
           <<32, 119, 105, 116, 104, 32, 97, 116, 116, 114, 105, 98, 117, 116, 101, 58, 32>>
      [] s = "godfather vibes" ->
           <<103, 111, 100, 102, 97, 116, 104, 101, 114, 32, 118, 105, 98, 101, 115>>
      [] s = "mafia style" ->
           <<109, 97, 102, 105, 97, 32, 115, 116, 121, 108, 101>>
      [] s = "Interior design elements for '" ->
           <<73, 110, 116, 101, 114, 105, 111, 114, 32, 100, 101, 115, 105, 103, 110, 32, 101, 108, 101, 109, 101, 110, 116, 115, 32, 102, 111, 114, 32, 39>>
      [] s = "' in an office or library" ->
           <<39, 32, 105, 110, 32, 97, 110, 32, 111, 102, 102, 105, 99, 101, 32, 111, 114, 32, 108, 105, 98, 114, 97, 114, 121>>
      [] s = "Standards or examples for implementing: " ->
           <<83, 116, 97, 110, 100, 97, 114, 100, 115, 32, 111, 114, 32, 101, 120, 97, 109, 112, 108, 101, 115, 32, 102, 111, 114, 32, 105, 109, 112, 108, 101, 109, 101, 110, 116, 105, 110, 103, 58, 32>>
      [] s = "Design details for: " ->
           <<68, 101, 115, 105, 103, 110, 32, 100, 101, 116, 97, 105, 108, 115, 32, 102, 111, 114, 58, 32>>
      [] s = "Sunlight and passive design strategies for a " ->
           <<83, 117, 110, 108, 105, 103, 104, 116, 32, 97, 110, 100, 32, 112, 97, 115, 115, 105, 118, 101, 32, 100, 101, 115, 105, 103, 110, 32, 115, 116, 114, 97, 116, 101, 103, 105, 101, 115, 32, 102, 111, 114, 32, 97, 32>>
      [] s = " facing lot" ->
           <<32, 102, 97, 99, 105, 110, 103, 32, 108, 111, 116>>
      [] s = "house" ->
           <<104, 111, 117, 115, 101>>
      [] s = "modern" ->
           <<109, 111, 100, 101, 114, 110>>
      [] s = "2000" ->
           <<50, 48, 48, 48>>
      [] s = "privacy" ->
           <<112, 114, 105, 118, 97, 99, 121>>
      [] s = "Kitchen" ->
           <<75, 105, 116, 99, 104, 101, 110>>
      [] s = "Bedroom Bath" ->
           <<66, 101, 100, 114, 111, 111, 109, 32, 66, 97, 116, 104>>
      [] s = "_p" ->
           <<95, 112>>
      [] s = "_chunk" ->
           <<95, 99, 104, 117, 110, 107>>
      [] s = "_" ->
           <<95>>
      [] s = "doc" ->
           <<100, 111, 99>>
      [] s = "doc_p1_chunk1" ->
           <<100, 111, 99, 95, 112, 49, 95, 99, 104, 117, 110, 107, 49>>
      [] s = "p1_chunk1_a" ->
           <<112, 49, 95, 99, 104, 117, 110, 107, 49, 95, 97>>
      [] s = "a" ->
           <<97>>
      [] s = "large" ->
           <<108, 97, 114, 103, 101>>
      [] s = "Godfather vibes" ->
           <<71, 111, 100, 102, 97, 116, 104, 101, 114, 32, 118, 105, 98, 101, 115>>
      [] s = "pool" ->
           <<112, 111, 111, 108>>
      [] s = "a heated pool" ->
           <<97, 32, 104, 101, 97, 116, 101, 100, 32, 112, 111, 111, 108>>
      [] s = "North" ->
           <<78, 111, 114, 116, 104>>

\* A value of the requirements dictionary: a key that is missing, a key whose
\* value is null, or a key with a value (a string, a list, a dictionary).
Absent == [k |-> "absent"]
Null == [k |-> "null"]
Val(x) == [k |-> "val", v |-> x]

Opt(S) == {Absent, Null} \cup { Val(x) : x \in S }

\* d.get(key, default) for the entry x of the key: the default only when the
\* key is missing; a null stays None.
Get(x, default) == IF x.k = "absent" THEN Val(default) ELSE x

\* How an f-string renders a string or None.
Fmt(x) == IF x.k = "null" THEN Lit("None") ELSE x.v

\* Truth of a string or None.
Truthy(x) == x.k = "val" /\ x.v # <<>>

\* A code point of str.lower() (ASCII letters).
LowerCharSame(c) == c
LowerChar(c) == IF c >= 65 /\ c <= 90 THEN c + 32 ELSE c
Lower(s) == [j \in 1..Len(s) |-> LowerChar(s[j])]

\* sub in s
Contains(s, sub) ==
    \E j \in 0..(Len(s) - Len(sub)) : SubSeq(s, j + 1, j + Len(sub)) = sub

\* s[:n]
Prefix(s, n) == SubSeq(s, 1, Min(n, Len(s)))

\* The snippet length of a feature description.
DescriptionSnippet == 100

\* The outcome of a stretch of the function: it raised, or the queries it appended.
Raised == [raised |-> TRUE, queries |-> <<>>]
Appended(qs) == [raised |-> FALSE, queries |-> qs]

\* b runs after a unless a raised.
Then(a, b) == IF a.raised THEN Raised
              ELSE IF b.raised THEN Raised
              ELSE Appended(a.queries \o b.queries)

\* A dictionary that is missing counts as {}: each of its keys is missing.
EmptySummary ==
    [ building_type |-> Absent, user_style_preference |-> Absent,
      total_footprint_sqft |-> Absent, key_constraints_or_desires |-> Absent ]

\* for constraint in project_summary.get("key_constraints_or_desires", [])
ConstraintQueries(constraints, building_type) ==
    IF constraints.k = "null" THEN Raised
    ELSE Appended([j \in 1..Len(constraints.v) |->
                     Lit("Standards or solutions for: ") \o Fmt(constraints.v[j])
                        \o Lit(" in a ") \o Fmt(building_type)])

\* # General Project Queries
SummaryQueries(project_summary) ==
    IF project_summary.k = "null" THEN Raised
    ELSE LET ps == IF project_summary.k = "absent" THEN EmptySummary
                   ELSE project_summary.v
             building_type == Get(ps.building_type, Lit("building"))
             style == Get(ps.user_style_preference, Lit(""))
         IN  Then(Appended(
                    <<Lit("General design standards for a ") \o Fmt(style)
                        \o Lit(" ") \o Fmt(building_type)>>
                    \o (IF Truthy(ps.total_footprint_sqft)
                        THEN <<Lit("Space planning considerations for a ")
                                 \o Fmt(ps.total_footprint_sqft) \o Lit(" sq ft ")
                                 \o Fmt(building_type)>>
                        ELSE <<>>)),
                  ConstraintQueries(Get(ps.key_constraints_or_desires, <<>>),
                                    building_type))

\* The keyword chain on the room name: the first branch that matches.
KeywordQueries(room_name) ==
    IF Contains(Lower(room_name), Lit("kitchen"))
    THEN << Lit("Electrical standards for a residential kitchen"),
            Lit("Plumbing standards for a residential kitchen"),
            Lit("Ventilation standards for a kitchen") >>
    ELSE IF Contains(Lower(room_name), Lit("bath"))
              \/ Contains(Lower(room_name), Lit("washroom"))
    THEN << Lit("Plumbing standards for a bathroom"),
            Lit("Electrical safety standards for bathrooms"),
            Lit("Accessibility standards for bathrooms") >>
    ELSE IF Contains(Lower(room_name), Lit("bedroom"))
    THEN << Lit("Lighting standards for a bedroom") >>
    ELSE <<>>

\* for attr in room_attributes, from the j-th attribute on: attr.lower()
\* raises on a null attribute, after its query is appended.
RECURSIVE AttributeQueries(_, _, _)
AttributeQueries(room_name, room_attributes, j) ==
    IF j > Len(room_attributes) THEN Appended(<<>>)
    ELSE LET attr == room_attributes[j]
         IN  IF attr.k = "null" THEN Raised
             ELSE Then(Appended(
                         <<Lit("Design considerations for a ") \o room_name
                             \o Lit(" with attribute: ") \o attr.v>>
                         \o (IF Contains(Lower(attr.v), Lit("godfather vibes"))
                                \/ Contains(Lower(attr.v), Lit("mafia style"))
                             THEN <<Lit("Interior design elements for '") \o attr.v
                                      \o Lit("' in an office or library")>>
                             ELSE <<>>)),
                       AttributeQueries(room_name, room_attributes, j + 1))

\* The body of the room loop: room_name.lower() raises on a null room name,
\* iterating null attributes raises.
RoomQueries(room_spec, style) ==
    LET room_name == Get(room_spec.room_name, Lit("room"))
        room_attributes == Get(room_spec.attributes, <<>>)
    IN  IF room_name.k = "null" THEN Raised
        ELSE IF room_attributes.k = "null" THEN Raised
        ELSE Then(Appended(
                    << Lit("Standard dimensions and layout for a ") \o Fmt(style)
                         \o Lit(" ") \o room_name.v,
                       Lit("Functional requirements for a ") \o room_name.v >>
                    \o KeywordQueries(room_name.v)),
                  AttributeQueries(room_name.v, room_attributes.v, 1))

\* for room_spec in extracted_requirements.get("room_specifications", [])
RECURSIVE RoomsFrom(_, _, _)
RoomsFrom(rooms, j, style) ==
    IF j > Len(rooms) THEN Appended(<<>>)
    ELSE Then(RoomQueries(rooms[j], style), RoomsFrom(rooms, j + 1, style))

RoomSpecificationQueries(room_specifications, style) ==
    IF room_specifications.k = "null" THEN Raised
    ELSE RoomsFrom(room_specifications.v, 1, style)

\* The body of the feature loop: the description is used only under a name.
FeatureQueries(feature) ==
    IF Truthy(feature.feature_name)
    THEN <<Lit("Standards or examples for implementing: ") \o feature.feature_name.v>>
         \o (IF Truthy(feature.description)
             THEN <<Lit("Design details for: ")
                      \o Prefix(feature.description.v, DescriptionSnippet)>>
             ELSE <<>>)
    ELSE <<>>

\* for feature in extracted_requirements.get("special_features", [])
RECURSIVE FeaturesFrom(_, _)
FeaturesFrom(features, j) ==
    IF j > Len(features) THEN <<>>
    ELSE FeatureQueries(features[j]) \o FeaturesFrom(features, j + 1)

SpecialFeatureQueries(special_features) ==
    IF special_features.k = "null" THEN Raised
    ELSE Appended(FeaturesFrom(special_features.v, 1))

\* # Site & Orientation Queries
SiteQueries(site_and_orientation) ==
    IF site_and_orientation.k = "null" THEN Raised
    ELSE IF site_and_orientation.k = "val"
              /\ Truthy(site_and_orientation.v.lot_orientation_street_facing)
    THEN Appended(<<Lit("Sunlight and passive design strategies for a ")
                      \o site_and_orientation.v.lot_orientation_street_facing.v
                      \o Lit(" facing lot")>>)
    ELSE Appended(<<>>)

\* Python's order of strings: by code point from the j-th on, a proper prefix
\* first.
RECURSIVE StrLessFrom(_, _, _)
StrLessFrom(a, b, j) ==
    IF j > Len(b) THEN FALSE
    ELSE IF j > Len(a) THEN TRUE
    ELSE IF a[j] # b[j] THEN a[j] < b[j]
    ELSE StrLessFrom(a, b, j + 1)

StrLess(a, b) == StrLessFrom(a, b, 1)

\* x put at its place in the ascending list l.
Insert(x, l) ==
    LET k == Cardinality({ j \in 1..Len(l) : StrLess(l[j], x) })
    IN  SubSeq(l, 1, k) \o <<x>> \o SubSeq(l, k + 1, Len(l))

\* The strings of S in ascending order.
RECURSIVE SortedList(_)
SortedList(S) ==
    IF S = {} THEN <<>>
    ELSE LET x == CHOOSE y \in S : TRUE
         IN  Insert(x, SortedList(S \ {x}))

\* The style the room queries use; read only when the summary did not raise.
StyleOf(project_summary) ==
    IF project_summary.k = "val"
    THEN Get(project_summary.v.user_style_preference, Lit(""))
    ELSE Val(Lit(""))

\* _generate_rule_based_queries: the candidate list, unless a rule raised.
CandidateQueries(extracted_requirements) ==
    Then(SummaryQueries(extracted_requirements.project_summary),
    Then(RoomSpecificationQueries(
            Get(extracted_requirements.room_specifications, <<>>),
            StyleOf(extracted_requirements.project_summary)),
    Then(SpecialFeatureQueries(Get(extracted_requirements.special_features, <<>>)),
         SiteQueries(extracted_requirements.site_and_orientation))))

\* if not extracted_requirements: the dictionary without any key.
IsEmptyRequirements(extracted_requirements) ==
    /\ extracted_requirements.project_summary.k = "absent"
    /\ extracted_requirements.room_specifications.k = "absent"
    /\ extracted_requirements.special_features.k = "absent"
    /\ extracted_requirements.site_and_orientation.k = "absent"

\* The elements of a list, each once, in the order of their first occurrence.
RECURSIVE Dedupe(_)
Dedupe(l) ==
    IF l = <<>> THEN <<>>
    ELSE LET rest == Dedupe(SubSeq(l, 1, Len(l) - 1))
         IN  IF l[Len(l)] \in Range(rest) THEN rest ELSE Append(rest, l[Len(l)])

\* list(set(queries)): the distinct queries in the iteration order of a set of
\* strings, which follows the string hashes and so the hash seed of the
\* process; the seed picks the order.
SetList(queries, seed) ==
    LET d == Dedupe(queries)
    IN  [j \in 1..Len(d) |-> d[((j - 1 + seed) % Len(d)) + 1]]

\* sorted(l) for a list of distinct strings.
SortedSkipped(l) == l
Sorted(l) == SortedList(Range(l))

\* generate_queries: [] for the empty dictionary, else the sorted, deduplicated
\* candidates; an exception of a rule reaches the caller.
GenerateQueriesResult(extracted_requirements, seed) ==
    IF IsEmptyRequirements(extracted_requirements) THEN Appended(<<>>)
    ELSE LET c == CandidateQueries(extracted_requirements)
         IN  IF c.raised THEN Raised
             ELSE Appended(Sorted(SetList(c.queries, seed)))

\* The bounded RequirementSets.
Summaries ==
    [ building_type : Opt({Lit("house")}),
      user_style_preference : {Absent, Val(Lit("modern"))},
      total_footprint_sqft : {Absent},
      key_constraints_or_desires : {Absent, Null, Val(<<Val(Lit("privacy"))>>)} ]
    \cup
    [ building_type : Opt({Lit("house")}),
      user_style_preference : {Absent, Val(Lit("modern"))},
      total_footprint_sqft : {Val(Lit("2000"))},
      key_constraints_or_desires : {Absent} ]

RoomSpecs ==
    [ room_name : Opt({Lit("Kitchen"), Lit("Bedroom Bath")}),
      attributes : {Absent, Val(<<Val(Lit("large"))>>)} ]
    \cup
    [ room_name : {Val(Lit("Kitchen"))},
      attributes : {Null, Val(<<Val(Lit("Godfather vibes"))>>)} ]

Features ==
    [ feature_name : {Null, Val(Lit("pool"))}, description : {Absent} ]
    \cup
    [ feature_name : {Absent, Val(Lit("pool"))},
      description : {Val(Lit("a heated pool"))} ]

Sites == [ lot_orientation_street_facing : {Null, Val(Lit("North"))} ]

Requirements ==
    [ project_summary : Opt(Summaries),
      room_specifications : Opt(SeqsUpTo(RoomSpecs, MaxRooms)),
      special_features : {Absent, Null} \cup { Val(<<f>>) : f \in Features },
      site_and_orientation : Opt(Sites) ]

PlanIdle == [pc |-> "idle"]

\* The hash seeds of the processes that call generate_queries.
HashSeeds == {0, 1}

\* generate_queries is called on the RequirementSet.
GenerateQueries ==
    /\ plan.pc = "called"
    /\ \E seed \in HashSeeds :
         LET r == GenerateQueriesResult(plan.extracted_requirements, seed)
         IN  plan' = [ pc |-> "returned",
                       extracted_requirements |-> plan.extracted_requirements,
                       raised |-> r.raised, queries |-> r.queries ]
    /\ UNCHANGED <<emb, embHist, collection, strictAdd, last, runs, rag_queries,
                 chunker, pipe>>

\* generate_queries is called once more on the same, unchanged RequirementSet.
GenerateQueriesAgain ==
    /\ plan.pc = "returned"
    /\ \E seed \in HashSeeds :
         plan' = [ pc |-> "returned_again",
                   extracted_requirements |-> plan.extracted_requirements,
                   raised |-> plan.raised, queries |-> plan.queries,
                   again |-> GenerateQueriesResult(plan.extracted_requirements, seed) ]
    /\ UNCHANGED <<emb, embHist, collection, strictAdd, last, runs, rag_queries,
                 chunker, pipe>>

(***************************************************************************)
(* AdvancedTextChunker over langchain's RecursiveCharacterTextSplitter     *)
(***************************************************************************)
\* The code points of the page texts: a letter, the space, the newline.
PageChars == {97, 32, 10}
Whitespace == {32, 10}

\* s.strip()
RECURSIVE LStrip(_)
LStrip(s) == IF s # <<>> /\ Head(s) \in Whitespace THEN LStrip(Tail(s)) ELSE s

RECURSIVE RStrip(_)
RStrip(s) ==
    IF s # <<>> /\ s[Len(s)] \in Whitespace
    THEN RStrip(SubSeq(s, 1, Len(s) - 1)) ELSE s

Strip(s) == LStrip(RStrip(s))

\* separators=None: the splitter's own list "\n\n", "\n", " ", "".
DefaultSeparators == << <<10, 10>>, <<10>>, <<32>>, <<>> >>

\* The check of the splitter's constructor: it raises for an overlap larger
\* than the chunk size.
OverlapRejected(chunk_size, chunk_overlap) == chunk_overlap > chunk_size

\* The starts of the leftmost non-overlapping occurrences of a non-empty
\* separator in text, from position j on.
RECURSIVE Cuts(_, _, _)
Cuts(text, separator, j) ==
    IF j + Len(separator) - 1 > Len(text) THEN <<>>
    ELSE IF SubSeq(text, j, j + Len(separator) - 1) = separator
    THEN <<j>> \o Cuts(text, separator, j + Len(separator))
    ELSE Cuts(text, separator, j + 1)

\* The splitter's split at a separator, the separator kept at the start of
\* the piece it precedes; "" splits into characters; empty pieces dropped.
SplitKeep(text, separator) ==
    IF separator = <<>> THEN [j \in 1..Len(text) |-> <<text[j]>>]
    ELSE LET c == Cuts(text, separator, 1)
             pieces == [k \in 1..(Len(c) + 1) |->
                          SubSeq(text,
                                 IF k = 1 THEN 1 ELSE c[k - 1],
                                 IF k = Len(c) + 1 THEN Len(text) ELSE c[k] - 1)]
         IN  SelectSeq(pieces, LAMBDA x : x # <<>>)

\* The sum of the lengths of pieces.
RECURSIVE TotalLen(_)
TotalLen(docs) == IF docs = <<>> THEN 0 ELSE Len(Head(docs)) + TotalLen(Tail(docs))

\* The pieces joined (the kept separators are part of the pieces).
RECURSIVE Concat(_)
Concat(docs) == IF docs = <<>> THEN <<>> ELSE Head(docs) \o Concat(Tail(docs))

\* The joined, stripped pieces as a one-element list, none when that is empty.
JoinDocs(docs) ==
    IF Strip(Concat(docs)) = <<>> THEN <<>> ELSE <<Strip(Concat(docs))>>

\* The splitter drops pieces from the front of the window while the window is
\* longer than the overlap, or too long to take the next piece of length n.
RECURSIVE DropFront(_, _, _, _)
DropFront(current_doc, n, chunk_size, chunk_overlap) ==
    IF TotalLen(current_doc) > chunk_overlap
         \/ (TotalLen(current_doc) + n > chunk_size /\ TotalLen(current_doc) > 0)
    THEN DropFront(Tail(current_doc), n, chunk_size, chunk_overlap)
    ELSE current_doc

\* The splitter's merge of small pieces into chunks, from the j-th piece on,
\* with the chunks made so far and the window of pieces of the current chunk.
RECURSIVE MergeFrom(_, _, _, _, _, _)
MergeFrom(splits, j, docs, current_doc, chunk_size, chunk_overlap) ==
    IF j > Len(splits) THEN docs \o JoinDocs(current_doc)
    ELSE LET d == splits[j]
             full == TotalLen(current_doc) + Len(d) > chunk_size
             flush == full /\ current_doc # <<>>
         IN  MergeFrom(splits, j + 1,
                       IF flush THEN docs \o JoinDocs(current_doc) ELSE docs,
                       Append(IF flush
                              THEN DropFront(current_doc, Len(d), chunk_size,
                                             chunk_overlap)
                              ELSE current_doc, d),
                       chunk_size, chunk_overlap)

MergeSplits(splits, chunk_size, chunk_overlap) ==
    MergeFrom(splits, 1, <<>>, <<>>, chunk_size, chunk_overlap)

\* The index of the separator the splitter uses for text: the first one that
\* is "" or occurs in text, else the last one.
RECURSIVE PickSeparator(_, _, _)
PickSeparator(text, separators, i) ==
    IF i > Len(separators) THEN Len(separators)
    ELSE IF separators[i] = <<>> \/ Cuts(text, separators[i], 1) # <<>> THEN i
    ELSE PickSeparator(text, separators, i + 1)

\* The separators left for the pieces that are still too long: those after
\* the one in use, none when the one in use is "" or was not found.
NewSeparators(text, separators) ==
    LET i == PickSeparator(text, separators, 1)
    IN  IF separators[i] # <<>> /\ Cuts(text, separators[i], 1) # <<>>
        THEN SubSeq(separators, i + 1, Len(separators))
        ELSE <<>>

\* The splitter's recursive split: pieces shorter than the chunk size are
\* merged, a longer piece is split with the separators left, and is a chunk
\* as it is when none is left.
RECURSIVE SplitText(_, _, _, _)
RECURSIVE SplitPieces(_, _, _, _, _, _, _)
SplitPieces(splits, j, good_splits, final_chunks, new_separators, chunk_size, chunk_overlap) ==
    IF j > Len(splits)
    THEN final_chunks \o MergeSplits(good_splits, chunk_size, chunk_overlap)
    ELSE IF Len(splits[j]) < chunk_size
    THEN SplitPieces(splits, j + 1, Append(good_splits, splits[j]), final_chunks,
                     new_separators, chunk_size, chunk_overlap)
    ELSE SplitPieces(splits, j + 1, <<>>,
                     final_chunks
                       \o MergeSplits(good_splits, chunk_size, chunk_overlap)
                       \o (IF new_separators = <<>> THEN <<splits[j]>>
                           ELSE SplitText(splits[j], new_separators, chunk_size,
                                          chunk_overlap)),
                     new_separators, chunk_size, chunk_overlap)

SplitText(text, separators, chunk_size, chunk_overlap) ==
    SplitPieces(SplitKeep(text, separators[PickSeparator(text, separators, 1)]),
                1, <<>>, <<>>, NewSeparators(text, separators),
                chunk_size, chunk_overlap)

\* str(n) for a small natural number.
RECURSIVE Str(_)
Str(n) == IF n < 10 THEN <<48 + n>> ELSE Str(n \div 10) \o <<48 + (n % 10)>>

\* The length of the chunk text that goes into the hashed string.
IdTextPrefix == 50

\* The string pages_to_chunks hashes for a chunk.
IdContentString(source_document_name, page_number, seq, cleaned_chunk_text) ==
    source_document_name \o Lit("_p") \o Str(page_number) \o Lit("_chunk")
        \o Str(seq) \o Lit("_") \o Prefix(cleaned_chunk_text, IdTextPrefix)

\* uuid.uuid5: a hash of the namespace and the name, the same for the same
\* arguments; the pair stands for it.
Uuid5(namespace, name) == <<namespace, name>>

\* The id of a chunk; rnd is the random source of the process, which uuid5
\* does not read.
ChunkIdRandom(namespace, id_content_string, rnd) == <<namespace, <<rnd>>>>
ChunkId(namespace, id_content_string, rnd) == Uuid5(namespace, id_content_string)

\* The chunk dictionaries of one page from the pieces of its text, from the
\* j-th piece on: a piece that is empty after strip() is passed over, and
\* the sequence number of a chunk is the position of its piece.
RECURSIVE PageChunks(_, _, _, _, _, _)
PageChunks(c, split_texts, j, page_number, source_document_name, rnd) ==
    IF j > Len(split_texts) THEN <<>>
    ELSE LET cleaned_chunk_text == Strip(split_texts[j])
             chunk_dict ==
               [ id |-> ChunkId(c.id_namespace_uuid,
                                IdContentString(source_document_name, page_number,
                                                j, cleaned_chunk_text), rnd),
                 text |-> cleaned_chunk_text,
                 metadata |->
                   [ source_document |-> source_document_name,
                     original_page_number |-> page_number,
                     chunk_sequence_on_page |-> j,
                     chunk_length_chars |->
                       IF Len(cleaned_chunk_text) >= c.min_chunk_length_for_metadata
                       THEN Val(Len(cleaned_chunk_text)) ELSE Absent ] ]
         IN  (IF cleaned_chunk_text = <<>> THEN <<>> ELSE <<chunk_dict>>)
             \o PageChunks(c, split_texts, j + 1, page_number,
                           source_document_name, rnd)

\* The separators the splitter works with.
SeparatorsOf(c) == IF c.separators.k = "null" THEN DefaultSeparators
                   ELSE c.separators.v

\* text_splitter.split_text(page_text)
SplitPage(c, page_text) ==
    SplitText(page_text, SeparatorsOf(c), c.chunk_target_size, c.chunk_overlap)

\* pages_to_chunks from the j-th page on: a page that is blank after strip()
\* is passed over.
RECURSIVE ChunksFrom(_, _, _, _, _)
ChunksFrom(c, pages_data, j, source_document_name, rnd) ==
    IF j > Len(pages_data) THEN <<>>
    ELSE (IF Strip(pages_data[j].text_content) = <<>> THEN <<>>
          ELSE PageChunks(c, SplitPage(c, pages_data[j].text_content), 1,
                          pages_data[j].page_number, source_document_name, rnd))
         \o ChunksFrom(c, pages_data, j + 1, source_document_name, rnd)

PagesToChunksResult(c, pages_data, source_document_name, rnd) ==
    ChunksFrom(c, pages_data, 1, source_document_name, rnd)

\* The bounded arguments of the constructor and of pages_to_chunks.
ChunkerConfigs ==
    [ chunk_target_size : 1..MaxChunk,
      chunk_overlap : 0..(MaxChunk + 1),
      separators : {Null, Val(<< <<10>> >>)},
      id_namespace_uuid : {0},
      min_chunk_length_for_metadata : {2} ]

PageTexts == SeqsUpTo(PageChars, MaxPageLen)

SecondPages ==
    { <<>>,
      <<[text_content |-> <<32>>, page_number |-> 2]>>,
      <<[text_content |-> <<97, 32, 97>>, page_number |-> 2]>> }

PagesData ==
    { <<[text_content |-> t, page_number |-> 1]>> \o sp :
        t \in PageTexts, sp \in SecondPages }

ChunkerIdle == [pc |-> "idle"]

\* The random values a process may draw.
RandomValues == {0, 1}

\* AdvancedTextChunker(...): the attributes are set and the splitter is
\* constructed, which raises for an overlap it rejects.
ChunkerInit ==
    /\ chunker.pc = "new"
    /\ chunker' = [chunker EXCEPT
                     !.pc = IF OverlapRejected(chunker.config.chunk_target_size,
                                               chunker.config.chunk_overlap)
                            THEN "rejected" ELSE "constructed"]
    /\ UNCHANGED <<emb, embHist, collection, strictAdd, last, runs, rag_queries,
                   plan, pipe>>

\* pages_to_chunks(pages_data, source_document_name) on the constructed chunker.
PagesToChunks ==
    /\ chunker.pc = "constructed"
    /\ \E rnd \in RandomValues :
         chunker' = [ pc |-> "chunked", config |-> chunker.config,
                      pages_data |-> chunker.pages_data,
                      source_document_name |-> chunker.source_document_name,
                      all_chunks_data |->
                        PagesToChunksResult(chunker.config, chunker.pages_data,
                                            chunker.source_document_name, rnd) ]
    /\ UNCHANGED <<emb, embHist, collection, strictAdd, last, runs, rag_queries,
                   plan, pipe>>

\* pages_to_chunks once more with the same pages and source name.
PagesToChunksAgain ==
    /\ chunker.pc = "chunked"
    /\ \E rnd \in RandomValues :
         chunker' = [ pc |-> "chunked_again", config |-> chunker.config,
                      pages_data |-> chunker.pages_data,
                      source_document_name |-> chunker.source_document_name,
                      all_chunks_data |-> chunker.all_chunks_data,
                      again |->
                        PagesToChunksResult(chunker.config, chunker.pages_data,
                                            chunker.source_document_name, rnd) ]
    /\ UNCHANGED <<emb, embHist, collection, strictAdd, last, runs, rag_queries,
                   plan, pipe>>

\* The chunks whose hashed strings are compared: source names, page numbers,
\* sequence numbers and chunk texts, among them a source name and a text
\* that hold the separators of the hashed string.
ChunkKeys ==
    [ source_document : {Lit("doc"), Lit("doc_p1_chunk1")},
      page_number : {1, 11},
      sequence_on_page : {1, 2},
      text : {Lit("a"), Lit("p1_chunk1_a"), Lit("doc")} ]

\* The key of a chunk as its id sees it: the text counts by its first 50
\* characters.
KeyOf(k) == [k EXCEPT !.text = Prefix(k.text, IdTextPrefix)]

\* The strings hashed for two chunks are built.
HashTwoChunks ==
    /\ chunker.pc = "keys"
    /\ chunker' = [ pc |-> "hashed", first |-> chunker.first, second |-> chunker.second,
                    id_content_strings |->
                      << IdContentString(chunker.first.source_document,
                                         chunker.first.page_number,
                                         chunker.first.sequence_on_page,
                                         chunker.first.text),
                         IdContentString(chunker.second.source_document,
                                         chunker.second.page_number,
                                         chunker.second.sequence_on_page,
                                         chunker.second.text) >> ]
    /\ UNCHANGED <<emb, embHist, collection, strictAdd, last, runs, rag_queries,
                   plan, pipe>>

(***************************************************************************)
(* run_full_rag_pipeline                                                   *)
(***************************************************************************)
\* The vector store at the configured path: it cannot be opened, it opens
\* but has no collection and none can be created, it opens without the
\* collection, it opens with the collection.
Stores == {"unavailable", "uncreatable", "empty", "present"}

\* ChromaManager(path, collection_name) raises: PersistentClient raises
\* outside the try, or get_collection raises and create_collection, called in
\* the except branch, raises too.
ConstructorNeverRaises(store) == FALSE
ChromaManagerRaises(store) == store \in {"unavailable", "uncreatable"}

\* The RequirementSet without any key, {}.
NoRequirements ==
    [ project_summary |-> Absent, room_specifications |-> Absent,
      special_features |-> Absent, site_and_orientation |-> Absent ]

\* What extract_requirements returns in the runs: None, {}, a summary without
\* fields, one room without fields, a null site.
Extractions ==
    { Null, Val(NoRequirements),
      Val([NoRequirements EXCEPT !.project_summary = Val(EmptySummary)]),
      Val([NoRequirements EXCEPT !.room_specifications =
             Val(<<[room_name |-> Absent, attributes |-> Absent]>>)]),
      Val([NoRequirements EXCEPT !.site_and_orientation = Null]) }

\* not extracted_requirements: None or the empty dictionary.
NotRequirements(extracted_requirements) ==
    extracted_requirements.k = "null"
      \/ IsEmptyRequirements(extracted_requirements.v)

PipeIdle == [pc |-> "idle"]

\* The run before its first step, with what its collaborators will do.
PipeStarts ==
    [ pc : {"start"},
      conversation : {"missing", "unreadable", "loaded"},
      store : Stores,
      components_ok : BOOLEAN,
      extraction : Extractions,
      chroma_manager : {"none"},
      rag_queries : {<<>>},
      pos : {0},
      all_retrieved_contexts : {EmptyContexts},
      synthesized_with : {Absent},
      extract_calls : {0}, embed_calls : {0}, index_queries : {0},
      synthesis_calls : {0} ]

PipeUnchanged ==
    UNCHANGED <<emb, embHist, collection, strictAdd, last, runs, rag_queries,
                plan, chunker>>

\* 1. Load User Conversation: a missing or unreadable file returns None.
PipeLoadConversation ==
    /\ pipe.pc = "start"
    /\ pipe' = [pipe EXCEPT !.pc = IF pipe.conversation = "loaded"
                                   THEN "loaded" ELSE "returned_none"]
    /\ PipeUnchanged

\* Initialize All RAG Components: the constructor of ChromaManager is not
\* guarded, so what it raises leaves the function; a component without its
\* model returns None.
PipeInitComponents ==
    /\ pipe.pc = "loaded"
    /\ pipe' = IF ChromaManagerRaises(pipe.store)
               THEN [pipe EXCEPT !.pc = "raised", !.chroma_manager = "raised"]
               ELSE [pipe EXCEPT !.pc = IF pipe.components_ok THEN "initialized"
                                        ELSE "returned_none",
                                 !.chroma_manager = "constructed"]
    /\ PipeUnchanged

\* 2. Extract Requirements: None or {} returns None.
PipeExtract ==
    /\ pipe.pc = "initialized"
    /\ pipe' = [pipe EXCEPT !.pc = IF NotRequirements(pipe.extraction)
                                   THEN "returned_none" ELSE "extracted",
                            !.extract_calls = @ + 1]
    /\ PipeUnchanged

\* 3. Generate RAG Queries: an exception of the planner leaves the function;
\* an empty list goes on.
PipePlan ==
    /\ pipe.pc = "extracted"
    /\ \E seed \in HashSeeds :
         LET r == GenerateQueriesResult(pipe.extraction.v, seed)
         IN  pipe' = IF r.raised THEN [pipe EXCEPT !.pc = "raised"]
                     ELSE [pipe EXCEPT !.pc = "retrieving",
                                       !.rag_queries = r.queries]
    /\ PipeUnchanged

\* 4. Retrieve Context: the body of the loop for the next query; the embedding
\* is absent, or the index is queried and returns None, no match or matches.
PipeRetrieveQuery ==
    /\ pipe.pc = "retrieving"
    /\ pipe.pos < Len(pipe.rag_queries)
    /\ LET query_text == pipe.rag_queries[pipe.pos + 1]
           recorded(contexts) ==
             [q \in DOMAIN pipe.all_retrieved_contexts \cup {query_text} |->
                IF q = query_text THEN contexts
                ELSE pipe.all_retrieved_contexts[q]]
       IN  \/ pipe' = [pipe EXCEPT !.pos = AfterAbsentEmbedding(@, Len(pipe.rag_queries)),
                                   !.embed_calls = @ + 1,
                                   !.all_retrieved_contexts = recorded(<<>>)]
           \/ \E contexts \in {<<>>, <<"a">>} :
                pipe' = [pipe EXCEPT !.pos = @ + 1,
                                     !.embed_calls = @ + 1,
                                     !.index_queries = @ + 1,
                                     !.all_retrieved_contexts = recorded(contexts)]
    /\ PipeUnchanged

\* 5. Synthesize Final Output, after the loop or at once when there is no
\* query; 6. the output is saved and returned, None when synthesis failed.
PipeSynthesize ==
    /\ pipe.pc = "retrieving"
    /\ pipe.pos >= Len(pipe.rag_queries)
    /\ \E final_output_json \in {"none", "json"} :
         pipe' = [pipe EXCEPT !.pc = IF final_output_json = "none"
                                     THEN "returned_none" ELSE "returned",
                              !.synthesis_calls = @ + 1,
                              !.synthesized_with = Val(pipe.all_retrieved_contexts)]
    /\ PipeUnchanged

(***************************************************************************)
(* Specifications, one per component.                                      *)
(***************************************************************************)
InitEmbed ==
    /\ emb = EmbIdle
    /\ embHist = EmbHistIdle
    /\ collection = EmptyCollection
    /\ strictAdd = FALSE
    /\ last = LastNone
    /\ runs = RunsIdle
    /\ rag_queries = <<>>
    /\ plan = PlanIdle
    /\ chunker = ChunkerIdle
    /\ pipe = PipeIdle

NextEmbed == EmbedStart \/ EmbedAttempt \/ EmbedSkip

SpecEmbed == InitEmbed /\ [][NextEmbed]_vars

\* embed_texts runs on: a remote call returns or raises, a sleep ends.
SpecEmbedFair == SpecEmbed /\ WF_vars(EmbedAttempt) /\ WF_vars(EmbedSkip)

InitIndex ==
    /\ emb = EmbIdle
    /\ embHist = EmbHistIdle
    /\ collection = EmptyCollection
    /\ strictAdd \in BOOLEAN
    /\ last = LastNone
    /\ runs = RunsIdle
    /\ rag_queries = <<>>
    /\ plan = PlanIdle
    /\ chunker = ChunkerIdle
    /\ pipe = PipeIdle

NextIndex ==
    \/ AddDocuments
    \/ AddDocumentsAgain
    \/ GetDocumentById
    \/ CountCall
    \/ QueryCollection
    \/ ClearCollection

SpecIndex == InitIndex /\ [][NextIndex]_vars

InitRetrieve ==
    /\ emb = EmbIdle
    /\ embHist = EmbHistIdle
    /\ collection \in RetrievalCollections
    /\ strictAdd = FALSE
    /\ last = LastNone
    /\ runs = RunsIdle
    /\ rag_queries \in PlannedQueryLists
    /\ plan = PlanIdle
    /\ chunker = ChunkerIdle
    /\ pipe = PipeIdle

NextRetrieve == \E r \in 1..2 : RetrieveQuery(r)

SpecRetrieve == InitRetrieve /\ [][NextRetrieve]_vars

InitPlan ==
    /\ emb = EmbIdle
    /\ embHist = EmbHistIdle
    /\ collection = EmptyCollection
    /\ strictAdd = FALSE
    /\ last = LastNone
    /\ runs = RunsIdle
    /\ rag_queries = <<>>
    /\ plan \in [ pc : {"called"}, extracted_requirements : Requirements ]
    /\ chunker = ChunkerIdle
    /\ pipe = PipeIdle

NextPlan == GenerateQueries \/ GenerateQueriesAgain

SpecPlan == InitPlan /\ [][NextPlan]_vars

InitChunk ==
    /\ emb = EmbIdle
    /\ embHist = EmbHistIdle
    /\ collection = EmptyCollection
    /\ strictAdd = FALSE
    /\ last = LastNone
    /\ runs = RunsIdle
    /\ rag_queries = <<>>
    /\ plan = PlanIdle
    /\ chunker \in [ pc : {"new"}, config : ChunkerConfigs, pages_data : PagesData,
                     source_document_name : {Lit("doc")} ]
    /\ pipe = PipeIdle

NextChunk == ChunkerInit \/ PagesToChunks \/ PagesToChunksAgain

SpecChunk == InitChunk /\ [][NextChunk]_vars

InitChunkId ==
    /\ emb = EmbIdle
    /\ embHist = EmbHistIdle
    /\ collection = EmptyCollection
    /\ strictAdd = FALSE
    /\ last = LastNone
    /\ runs = RunsIdle
    /\ rag_queries = <<>>
    /\ plan = PlanIdle
    /\ chunker \in [ pc : {"keys"}, first : ChunkKeys, second : ChunkKeys ]
    /\ pipe = PipeIdle

NextChunkId == HashTwoChunks

SpecChunkId == InitChunkId /\ [][NextChunkId]_vars

InitPipe ==
    /\ emb = EmbIdle
    /\ embHist = EmbHistIdle
    /\ collection = EmptyCollection
    /\ strictAdd = FALSE
    /\ last = LastNone
    /\ runs = RunsIdle
    /\ rag_queries = <<>>
    /\ plan = PlanIdle
    /\ chunker = ChunkerIdle
    /\ pipe \in PipeStarts

NextPipe ==
    \/ PipeLoadConversation
    \/ PipeInitComponents
    \/ PipeExtract
    \/ PipePlan
    \/ PipeRetrieveQuery
    \/ PipeSynthesize

SpecPipe == InitPipe /\ [][NextPipe]_vars

(***************************************************************************)
(* Claims about embed_texts.                                               *)
(***************************************************************************)
Batches == 1..NumBatches(Len(emb.texts), emb.batch_size)

\* The positions (from 1) of batch b.
BatchPositions(b) ==
    { p \in 1..Len(emb.texts) : BatchOf(p - 1, emb.batch_size) = b }

\* C1: embed_texts returns exactly len(texts) entries, and when every remote
\* call either raised or returned one vector per text, the entry at position p
\* is None or the vector the remote returns for texts[p].
C1_OrderPreserved ==
    /\ emb.pc # "idle" => Len(emb.all_embeddings) = Len(emb.texts)
    /\ (emb.pc = "done" /\ ~embHist.malformed) =>
         \A p \in 1..Len(emb.texts) :
            emb.all_embeddings[p] \in {None, Vec(emb.texts[p], emb.task_type)}

\* C1 witness: a finished call over three texts in two batches, both texts
\* values present, with a vector in the second batch and a None in the first.
C1_Witness ==
    /\ emb.pc = "done" /\ ~embHist.malformed
    /\ Len(emb.texts) = 3 /\ emb.batch_size = 2
    /\ emb.texts[1] # emb.texts[3]
    /\ emb.all_embeddings[1] = None
    /\ emb.all_embeddings[3] = Vec(emb.texts[3], emb.task_type)

\* C2: if every call for batch k failed and no call for any other batch
\* failed, the result is None exactly at the positions of batch k, and the
\* batches after k were sent.
C2_IsolatedBatchFailure ==
    (emb.pc = "done" /\ ~embHist.malformed) =>
        \A k \in Batches :
            ( /\ embHist.fails[k] = embHist.calls[k]
              /\ \A b \in Batches \ {k} : embHist.fails[b] = 0 )
            => /\ \A p \in 1..Len(emb.texts) :
                     (emb.all_embeddings[p] = None) <=> (p \in BatchPositions(k))
               /\ \A b \in Batches : b > k => embHist.calls[b] >= 1

\* C3: a group whose every call fails is called max_retries + 1 times
\* (the first call and max_retries retries) before it is marked absent.
C3_RetriesAfterFirstCall ==
    emb.pc = "done" =>
        \A b \in Batches :
            ( /\ embHist.fails[b] = embHist.calls[b]
              /\ \A p \in BatchPositions(b) : emb.all_embeddings[p] = None )
            => embHist.calls[b] = emb.max_retries + 1

\* C4: when embed_texts returns, every group is entirely vectors or entirely
\* None, and every vector stands at the position of the text it belongs to.
C4_AllOrNothingPerGroup ==
    emb.pc = "done" =>
        /\ \A b \in Batches :
              \/ \A p \in BatchPositions(b) : emb.all_embeddings[p] = None
              \/ \A p \in BatchPositions(b) : emb.all_embeddings[p] # None
        /\ \A p \in 1..Len(emb.texts) :
              emb.all_embeddings[p] \in {None, Vec(emb.texts[p], emb.task_type)}

(***************************************************************************)
(* Claims about ChromaManager.                                             *)
(***************************************************************************)
\* C7: after add_documents ran with every sub-batch reported successful, a
\* get_document_by_id of an id of the call that was already stored returns
\* the text and metadata supplied by the call.
C7_UpsertOverwrites ==
    (last.op = "add" /\ LengthsMatch(last.args) /\ last.raised = 0
       /\ ~HasDuplicates(last.args.ids)) =>
        \A j \in 1..Len(last.args.ids) :
            last.args.ids[j] \in DOMAIN last.pre =>
                LET got == GetDocumentResult(collection, last.args.ids[j])
                IN  /\ got.found
                    /\ got.document = last.args.documents[j]
                    /\ got.metadata = last.args.metadatas[j]

C9_UnequalLengthsRejected ==
    (last.op = "add" /\ ~( /\ Len(last.args.ids) = Len(last.args.embeddings)
                           /\ Len(last.args.ids) = Len(last.args.metadatas)
                           /\ Len(last.args.ids) = Len(last.args.documents) )) =>
        /\ last.attempts = 0
        /\ collection = last.pre

\* C9 witness: a rejected call whose ids and embeddings agree in length and
\* whose documents are one short, on a collection that holds a record.
C9_Witness ==
    /\ last.op = "add"
    /\ Len(last.args.ids) = 2
    /\ Len(last.args.embeddings) = 2
    /\ Len(last.args.documents) = 1
    /\ last.args.batch_size = 1
    /\ last.args.ids[1] \notin DOMAIN last.pre
    /\ Count(collection) = 1

(***************************************************************************)
(* Claims about the retrieval loop.                                        *)
(***************************************************************************)
\* C5: when the loop has processed the planned query list, the keys of the
\* ContextMap are exactly the planned queries.
C5_OneKeyPerQuery ==
    \A r \in 1..2 :
        RunDone(runs[r]) =>
            DOMAIN runs[r].all_retrieved_contexts = Range(rag_queries)

\* C5 witness: a finished run over two queries: the embedding of the first
\* is absent, the index query of the second raised.
C5_Witness ==
    /\ Len(rag_queries) = 2
    /\ RunDone(runs[1])
    /\ ~runs[1].outcome[rag_queries[1]].embedded
    /\ runs[1].outcome[rag_queries[2]] = [embedded |-> TRUE, retrieved_docs |-> NoneResult]

\* C6: in two finished runs over the same query list, every query whose
\* embedding and index outcome is the same in both runs has the same context
\* list in both, whatever happened to the other queries, and both runs
\* processed every query of the list.
C6_QueriesIndependent ==
    (RunDone(runs[1]) /\ RunDone(runs[2])) =>
        /\ \A r \in 1..2 : DOMAIN runs[r].outcome = Range(rag_queries)
        /\ \A q \in Range(rag_queries) :
              runs[1].outcome[q] = runs[2].outcome[q]
              => runs[1].all_retrieved_contexts[q] = runs[2].all_retrieved_contexts[q]

\* C6 witness: two finished runs over two queries that differ in the outcome
\* of the first query only: it has two matches in run 1 and no embedding in
\* run 2, and the second query has two matches in both runs.
C6_Witness ==
    /\ Len(rag_queries) = 2
    /\ RunDone(runs[1]) /\ RunDone(runs[2])
    /\ ~runs[2].outcome[rag_queries[1]].embedded
    /\ Len(runs[1].all_retrieved_contexts[rag_queries[1]]) = 2
    /\ runs[1].outcome[rag_queries[2]] = runs[2].outcome[rag_queries[2]]
    /\ Len(runs[2].all_retrieved_contexts[rag_queries[2]]) = 2

(***************************************************************************)
(* Claims about QueryGenerator.                                            *)
(***************************************************************************)
\* C10: generate_queries returns a query list, without raising, for every
\* RequirementSet, whichever of its fields are absent or null.
C10_NeverRaises ==
    plan.pc = "returned" => ~plan.raised

\* The queries a finished call returned (none when it raised).
Returned == plan.pc \in {"returned", "returned_again"} /\ ~plan.raised

\* The room specifications of the RequirementSet, when it has a list of them.
RoomsOf(extracted_requirements) ==
    IF extracted_requirements.room_specifications.k = "val"
    THEN extracted_requirements.room_specifications.v
    ELSE <<>>

\* The building type is missing: no summary, or a summary without the key.
BuildingTypeAbsent(extracted_requirements) ==
    LET ps == extracted_requirements.project_summary
    IN  ps.k = "absent" \/ (ps.k = "val" /\ ps.v.building_type.k = "absent")

\* Some room specification has no room_name key.
RoomNameAbsent(extracted_requirements) ==
    \E j \in 1..Len(RoomsOf(extracted_requirements)) :
        RoomsOf(extracted_requirements)[j].room_name.k = "absent"

\* C11: no returned query stands in a default word for a missing value: with
\* the building type missing no query names a "building", with a room name
\* missing no query names a "room" (no value of the RequirementSet holds
\* either word).
C11_NoPlaceholderQuery ==
    Returned =>
        \A j \in 1..Len(plan.queries) :
            /\ BuildingTypeAbsent(plan.extracted_requirements)
                 => ~Contains(plan.queries[j], Lit(" ") \o Lit("building"))
            /\ RoomNameAbsent(plan.extracted_requirements)
                 => ~Contains(plan.queries[j], Lit(" ") \o Lit("room"))


\* C12: the returned list is in strictly ascending lexicographic order (sorted,
\* no two equal strings), and a second call on the same unchanged
\* RequirementSet returns the identical list.
C12_SortedAndDeterministic ==
    /\ Returned =>
          \A j \in 1..(Len(plan.queries) - 1) :
              StrLess(plan.queries[j], plan.queries[j + 1])
    /\ plan.pc = "returned_again" =>
          plan.again = [raised |-> plan.raised, queries |-> plan.queries]

\* C12 witness: two calls have returned the same list of at least four queries,
\* among them the keyword queries of a kitchen, which follow the general query
\* in the order of appending and precede it in the sorted list.
C12_Witness ==
    /\ plan.pc = "returned_again"
    /\ ~plan.raised /\ ~plan.again.raised
    /\ Len(plan.queries) >= 4
    /\ plan.queries[1] = Lit("Electrical standards for a residential kitchen")

\* The set of the returned queries.
QuerySet == Range(plan.queries)

\* The names of the room specifications that have one.
RoomNames(extracted_requirements) ==
    { RoomsOf(extracted_requirements)[j].room_name.v :
        j \in { i \in 1..Len(RoomsOf(extracted_requirements)) :
                  RoomsOf(extracted_requirements)[i].room_name.k = "val" } }

\* C13: for every room and each keyword group its name contains, whatever the
\* case, the plan holds the secondary queries of that group, also for a name
\* with keywords of several groups.
C13_KeywordGroups ==
    Returned =>
        \A room_name \in RoomNames(plan.extracted_requirements) :
            /\ Contains(Lower(room_name), Lit("kitchen")) =>
                  { Lit("Electrical standards for a residential kitchen"),
                    Lit("Plumbing standards for a residential kitchen"),
                    Lit("Ventilation standards for a kitchen") } \subseteq QuerySet
            /\ (Contains(Lower(room_name), Lit("bath"))
                   \/ Contains(Lower(room_name), Lit("washroom"))) =>
                  { Lit("Plumbing standards for a bathroom"),
                    Lit("Electrical safety standards for bathrooms"),
                    Lit("Accessibility standards for bathrooms") } \subseteq QuerySet
            /\ Contains(Lower(room_name), Lit("bedroom")) =>
                  Lit("Lighting standards for a bedroom") \in QuerySet

\* The RequirementSet with one room "Kitchen" with attribute "large".
KitchenLarge ==
    <<[ room_name |-> Val(Lit("Kitchen")),
        attributes |-> Val(<<Val(Lit("large"))>>) ]>>

\* The six queries the kitchen example names.
KitchenLargeQueries ==
    { q \in QuerySet : Contains(q, Lit("Standard dimensions and layout for a "))
                          /\ Contains(q, Lit("Kitchen")) }
    \cup
    ({ Lit("Functional requirements for a ") \o Lit("Kitchen"),
       Lit("Electrical standards for a residential kitchen"),
       Lit("Plumbing standards for a residential kitchen"),
       Lit("Ventilation standards for a kitchen"),
       Lit("Design considerations for a ") \o Lit("Kitchen")
          \o Lit(" with attribute: ") \o Lit("large") } \cap QuerySet)

\* C14: for every room with a name the plan holds a dimensions/layout query
\* and a functional-requirements query for that room; for one room "Kitchen"
\* with attribute "large" it holds the dimensions/layout, functional,
\* electrical, plumbing, ventilation and attribute queries, six distinct ones.
C14_RoomQueries ==
    Returned =>
        /\ \A room_name \in RoomNames(plan.extracted_requirements) :
              /\ \E q \in QuerySet :
                    /\ Contains(q, Lit("Standard dimensions and layout for a "))
                    /\ Contains(q, room_name)
              /\ Lit("Functional requirements for a ") \o room_name \in QuerySet
        /\ RoomsOf(plan.extracted_requirements) = KitchenLarge =>
              Cardinality(KitchenLargeQueries) = 6

\* C14 witness: a call has returned the plan of the one room "Kitchen" with
\* attribute "large".
C14_Witness ==
    /\ Returned
    /\ RoomsOf(plan.extracted_requirements) = KitchenLarge
    /\ Len(plan.queries) >= 6

(***************************************************************************)
(* Claims about AdvancedTextChunker.                                       *)
(***************************************************************************)
\* C15: a chunker with chunk_overlap >= chunk_target_size, equality included,
\* is rejected at construction: none is ever constructed, none chunks a page.
C15_OverlapRejectedAtConstruction ==
    chunker.pc \in {"constructed", "chunked", "chunked_again"} =>
        chunker.config.chunk_overlap < chunker.config.chunk_target_size

\* The ids of a list of chunks, in order.
IdsOf(chunks) == [j \in 1..Len(chunks) |-> chunks[j].id]

\* C16: two calls of pages_to_chunks with the same pages and source name, on
\* the same chunker, yield the same sequence of chunk ids.
C16_IdsDeterministic ==
    chunker.pc = "chunked_again" =>
        IdsOf(chunker.again) = IdsOf(chunker.all_chunks_data)

\* C16 witness: both calls have returned, each at least two chunks.
C16_Witness ==
    /\ chunker.pc = "chunked_again"
    /\ Len(chunker.all_chunks_data) >= 2
    /\ Len(chunker.again) >= 2

\* The texts of the chunks of the page with a page number, in order.
PageChunkTexts(chunks, page_number) ==
    LET own == SelectSeq(chunks,
                 LAMBDA ch : ch.metadata.original_page_number = page_number)
    IN  [j \in 1..Len(own) |-> own[j].text]

\* The chunks joined after the last n characters of each but the last are
\* removed.
RECURSIVE JoinWithoutOverlap(_, _)
JoinWithoutOverlap(texts, n) ==
    IF texts = <<>> THEN <<>>
    ELSE IF Len(texts) = 1 THEN texts[1]
    ELSE SubSeq(Head(texts), 1, Len(Head(texts)) - n)
           \o JoinWithoutOverlap(Tail(texts), n)

\* A text without its whitespace.
Unspaced(s) == SelectSeq(s, LAMBDA ch : ch \notin Whitespace)

\* C17: for every page chunked with an overlap below the target size, the
\* page's chunks joined after the last chunk_overlap characters of each
\* non-final chunk are removed give back the page text, whitespace aside.
C17_RoundTripOverlap ==
    /\ chunker.pc \in {"chunked", "chunked_again"}
    /\ chunker.config.chunk_overlap < chunker.config.chunk_target_size
    =>  \A j \in 1..Len(chunker.pages_data) :
            Strip(chunker.pages_data[j].text_content) # <<>> =>
                Unspaced(JoinWithoutOverlap(
                    PageChunkTexts(chunker.all_chunks_data,
                                   chunker.pages_data[j].page_number),
                    chunker.config.chunk_overlap))
                  = Unspaced(chunker.pages_data[j].text_content)

\* C18: every emitted chunk has a non-empty text of at most chunk_target_size
\* characters, whatever the page text and the separators.
C18_ChunkWithinTarget ==
    chunker.pc \in {"chunked", "chunked_again"} =>
        \A j \in 1..Len(chunker.all_chunks_data) :
            /\ chunker.all_chunks_data[j].text # <<>>
            /\ Len(chunker.all_chunks_data[j].text)
                 <= chunker.config.chunk_target_size

(***************************************************************************)
(* Claims about run_full_rag_pipeline.                                     *)
(***************************************************************************)
\* C19: when the vector store cannot be opened or created, the constructor of
\* ChromaManager raises, the exception leaves run_full_rag_pipeline, and in
\* that run nothing is extracted, embedded, queried or synthesized.
C19_StoreFailureAborts ==
    pipe.store \in {"unavailable", "uncreatable"} =>
        /\ pipe.chroma_manager # "constructed"
        /\ pipe.chroma_manager = "raised" => pipe.pc = "raised"
        /\ pipe.pc \in {"start", "loaded", "returned_none", "raised"}
        /\ pipe.extract_calls = 0 /\ pipe.embed_calls = 0
        /\ pipe.index_queries = 0 /\ pipe.synthesis_calls = 0

\* C19 witness: a run with a loaded conversation has ended in the exception of
\* the constructor, the collection being neither present nor creatable.
C19_Witness ==
    /\ pipe.store = "uncreatable"
    /\ pipe.conversation = "loaded"
    /\ pipe.chroma_manager = "raised"
    /\ pipe.pc = "raised"

\* The run has ended: it returned or an exception left it.
PipeEnded == pipe.pc \in {"returned", "returned_none", "raised"}

\* C20: a run whose extraction gave a RequirementSet from which no query is
\* generated does not abort: it reaches the synthesis call, with an empty
\* ContextMap.
C20_DegeneratePlanningProceeds ==
    /\ PipeEnded
    /\ pipe.extract_calls = 1
    /\ pipe.extraction.k = "val"
    /\ GenerateQueriesResult(pipe.extraction.v, 0) = Appended(<<>>)
    =>  /\ pipe.synthesis_calls = 1
        /\ pipe.synthesized_with = Val(EmptyContexts)

(***************************************************************************)
(* Further claims about ChromaManager.                                     *)
(***************************************************************************)
\* The ids of sub-batch b (from 1) of the arguments of add_documents.
SubBatchIds(args, b) == Range(Slice(args.ids, (b - 1) * args.batch_size, args.batch_size))

\* C21: a call of add_documents in which the write of a sub-batch fails keeps
\* what was stored before and what its other sub-batches wrote, attempts every
\* sub-batch, and lets no exception reach its caller.
C21_SubBatchFailureIsolated ==
    last.op = "add" /\ last.raised_batches # {} =>
        /\ DOMAIN last.pre \subseteq DOMAIN collection
        /\ \A b \in 1..NumBatches(Len(last.args.ids), last.args.batch_size) :
              b \notin last.raised_batches =>
                  SubBatchIds(last.args, b) \subseteq DOMAIN collection
        /\ last.attempts = NumBatches(Len(last.args.ids), last.args.batch_size)
        /\ ~last.escaped

\* C22: a step that is not clear_collection, whether its call succeeds or
\* fails, keeps every stored id stored and does not lower count().
C22_OnlyClearDestroys ==
    [][last'.op # "clear" =>
          /\ DOMAIN collection \subseteq DOMAIN collection'
          /\ Count(collection') >= Count(collection)]_vars

\* C22 witness: an add_documents call with a failed sub-batch has run on a
\* collection that held a record, and the record is still there.
C22_Witness ==
    /\ last.op = "add"
    /\ last.raised > 0
    /\ last.pre # EmptyCollection
    /\ DOMAIN last.pre \subseteq DOMAIN collection

(***************************************************************************)
(* Further claims about embed_texts.                                       *)
(***************************************************************************)
\* The positions of the log that hold a remote call.
CallsAt == { k \in 1..Len(embHist.log) : embHist.log[k].ev = "call" }

\* The positions of the log that hold a remote call for group b.
CallsOf(b) == { k \in CallsAt : embHist.log[k].batch = b }

\* Whether the call at position k is followed by another call for its group.
HasNextAttempt(k) == \E m \in CallsOf(embHist.log[k].batch) : m > k

\* Whether the log holds a sleep right after position k.
SleepsAfter(k) == k < Len(embHist.log) /\ embHist.log[k + 1].ev = "sleep"

\* The number of failed calls of the group of position k up to position k.
FailedUpTo(k) == Cardinality({ m \in CallsOf(embHist.log[k].batch) : m <= k /\ embHist.log[m].raised })

\* Whether group b is over: the loop is past it.
GroupOver(b) == emb.pc = "done" \/ BatchOf(emb.i, emb.batch_size) > b

\* C23: the n-th failed attempt of a group, when another attempt follows, is
\* followed by exactly one sleep of initial_backoff * 2^(n-1); nothing sleeps
\* after a successful call or after the final failed attempt of a group, and
\* every sleep stands right after a failed call.
C23_ExponentialBackoff ==
    /\ \A k \in CallsAt :
          /\ (embHist.log[k].raised /\ HasNextAttempt(k)) =>
                /\ SleepsAfter(k)
                /\ embHist.log[k + 1].time = emb.initial_backoff * 2 ^ (FailedUpTo(k) - 1)
                /\ k + 2 \in CallsOf(embHist.log[k].batch)
          /\ ~embHist.log[k].raised => ~SleepsAfter(k)
          /\ (embHist.log[k].raised /\ ~HasNextAttempt(k) /\ GroupOver(embHist.log[k].batch))
                => ~SleepsAfter(k)
    /\ \A k \in 1..Len(embHist.log) :
          embHist.log[k].ev = "sleep" =>
              k > 1 /\ k - 1 \in CallsAt /\ embHist.log[k - 1].raised

\* C23 witness: a finished call in which one group failed twice and was
\* tried a third time, sleeping 3 and then 6, and a group ended on a failure.
C23_Witness ==
    /\ emb.pc = "done" /\ emb.initial_backoff = 3
    /\ \E k \in CallsAt :
          /\ k + 4 \in CallsOf(embHist.log[k].batch)
          /\ embHist.log[k + 1].ev = "sleep" /\ embHist.log[k + 1].time = 3
          /\ embHist.log[k + 3].ev = "sleep" /\ embHist.log[k + 3].time = 6
    /\ \E k \in CallsAt : embHist.log[k].raised /\ ~HasNextAttempt(k)

\* The texts of group b (from 1), in input order.
GroupTexts(b) ==
    LET first == (b - 1) * emb.batch_size
    IN  [j \in 1..Min(emb.batch_size, Len(emb.texts) - first) |-> emb.texts[first + j]]

\* C24: the groups are consecutive, hold between one and batch_size texts and
\* together hold every text once; every remote call carries the texts of its
\* group in input order; the calls go through the groups in order; and a
\* group whose first call succeeded has one call.
C24_BatchingPartitions ==
    emb.pc # "idle" =>
        /\ \A b \in Batches : Len(GroupTexts(b)) \in 1..emb.batch_size
        /\ \A p \in 1..Len(emb.texts) :
              Cardinality({ b \in Batches :
                              p - (b - 1) * emb.batch_size \in 1..Len(GroupTexts(b)) }) = 1
        /\ \A k \in CallsAt :
              /\ embHist.log[k].batch \in Batches
              /\ embHist.log[k].content = GroupTexts(embHist.log[k].batch)
        /\ \A k, m \in CallsAt : k < m => embHist.log[k].batch <= embHist.log[m].batch
        /\ \A b \in Batches :
              (\E k \in CallsOf(b) : ~embHist.log[k].raised /\ FailedUpTo(k) = 0)
                  => Cardinality(CallsOf(b)) = 1
        /\ (emb.pc = "done" /\ emb.max_retries >= 1) =>
              \A b \in Batches : CallsOf(b) # {}

\* C24 witness: a finished call over three texts in groups of two, the first
\* group sent once, the second sent again after a failure.
C24_Witness ==
    /\ emb.pc = "done"
    /\ Len(emb.texts) = 3 /\ emb.batch_size = 2
    /\ emb.texts[1] # emb.texts[2]
    /\ Cardinality(CallsOf(1)) = 1
    /\ Cardinality(CallsOf(2)) = 2

\* C30: embed_texts makes at most max_retries + 1 remote calls per group, so
\* at most ceil(len(texts) / batch_size) * (max_retries + 1) in all; an empty
\* input returns the empty list at once, with no remote call; and every call
\* of embed_texts returns.
C30_TerminatesWithinBound ==
    /\ [](emb.pc # "idle" =>
            /\ \A b \in Batches : Cardinality(CallsOf(b)) <= emb.max_retries + 1
            /\ Cardinality(CallsAt)
                 <= ((Len(emb.texts) + emb.batch_size - 1) \div emb.batch_size)
                       * (emb.max_retries + 1)
            /\ emb.texts = <<>> =>
                  /\ emb.pc = "done"
                  /\ emb.all_embeddings = <<>>
                  /\ CallsAt = {})
    /\ (emb.pc = "embedding") ~> (emb.pc = "done")

\* C30 witness: a call has returned whose every remote call failed, each
\* group having been tried max_retries times.
C30_Witness ==
    /\ emb.pc = "done"
    /\ Len(emb.texts) = MaxTexts /\ emb.batch_size = 1
    /\ emb.max_retries = DefaultMaxRetries
    /\ \A k \in CallsAt : embHist.log[k].raised
    /\ \A b \in Batches : Cardinality(CallsOf(b)) = emb.max_retries

(***************************************************************************)
(* Further claims about the retrieval loop.                                *)
(***************************************************************************)
\* C25: a recorded query whose embedding was absent has the empty context
\* list and no call of query_collection; a recorded query whose embedding was
\* present has one call of query_collection, with the QUERY-mode vector
\* of the query and n_results = RAG_NUM_RETRIEVED_CHUNKS, and its contexts are
\* the returned matches in the returned order.
C25_OneIndexQueryPerEmbedding ==
    \A r \in 1..2 : \A q \in DOMAIN runs[r].outcome :
        LET how == runs[r].outcome[q]
            contexts == runs[r].all_retrieved_contexts[q]
            index_queries == runs[r].index_queries[q]
            matches == IF how.retrieved_docs.ids = <<>> THEN <<>>
                       ELSE how.retrieved_docs.ids[1]
        IN  /\ ~how.embedded => (contexts = <<>> /\ index_queries = <<>>)
            /\ how.embedded =>
                  /\ Len(index_queries) = 1
                  /\ index_queries[1].n_results = RAG_NUM_RETRIEVED_CHUNKS
                  /\ index_queries[1].query_embeddings = <<Vec(q, "RETRIEVAL_QUERY")>>
                  /\ Len(contexts) = Len(matches)
                  /\ \A j \in 1..Len(matches) :
                        /\ contexts[j].id = matches[j]
                        /\ contexts[j].text = how.retrieved_docs.documents[1][j]
                        /\ contexts[j].metadata = how.retrieved_docs.metadatas[1][j]
                        /\ contexts[j].distance = how.retrieved_docs.distances[1][j]

\* C25 witness: a run recorded a query without embedding and a query whose
\* index query returned two matches, the second stored record first.
C25_Witness ==
    /\ Len(rag_queries) = 2
    /\ RunDone(runs[1])
    /\ ~runs[1].outcome[rag_queries[1]].embedded
    /\ runs[1].outcome[rag_queries[2]].embedded
    /\ Len(runs[1].all_retrieved_contexts[rag_queries[2]]) = 2
    /\ runs[1].all_retrieved_contexts[rag_queries[2]][1].id = "b"

(***************************************************************************)
(* Further claims about QueryGenerator.                                    *)
(***************************************************************************)
\* The room specifications that have a name and a list of attributes.
RoomsWithAttributes(extracted_requirements) ==
    { RoomsOf(extracted_requirements)[j] :
        j \in { i \in 1..Len(RoomsOf(extracted_requirements)) :
                  /\ RoomsOf(extracted_requirements)[i].room_name.k = "val"
                  /\ RoomsOf(extracted_requirements)[i].attributes.k = "val" } }

\* C26: for every attribute of every room the plan holds the query "Design
\* considerations for a <room> with attribute: <attribute>", and that is the
\* only query of the plan that holds the attribute.
C26_OneQueryPerAttribute ==
    Returned =>
        \A room_spec \in RoomsWithAttributes(plan.extracted_requirements) :
            \A j \in 1..Len(room_spec.attributes.v) :
                LET attr == room_spec.attributes.v[j].v
                    query == Lit("Design considerations for a ") \o room_spec.room_name.v
                                \o Lit(" with attribute: ") \o attr
                IN  /\ query \in QuerySet
                    /\ \A q \in QuerySet : Contains(q, attr) => q = query

\* The special features of the RequirementSet, when it has a list of them.
FeaturesOf(extracted_requirements) ==
    IF extracted_requirements.special_features.k = "val"
    THEN Range(extracted_requirements.special_features.v)
    ELSE {}

\* C27: for every special feature with a description the plan holds the
\* query of the first 100 characters of the description, with or without a
\* feature name; for every one with a feature name it holds the
\* implementation-standards query of the name.
C27_FeatureQueries ==
    Returned =>
        \A feature \in FeaturesOf(plan.extracted_requirements) :
            /\ Truthy(feature.description) =>
                  Lit("Design details for: ")
                     \o SubSeq(feature.description.v, 1,
                               Min(100, Len(feature.description.v))) \in QuerySet
            /\ Truthy(feature.feature_name) =>
                  Lit("Standards or examples for implementing: ")
                     \o feature.feature_name.v \in QuerySet

(***************************************************************************)
(* Further claims about AdvancedTextChunker.                               *)
(***************************************************************************)
\* The chunk_sequence_on_page values of the chunks of a page, in order.
PageSequence(chunks, page_number) ==
    LET own == SelectSeq(chunks,
                 LAMBDA ch : ch.metadata.original_page_number = page_number)
    IN  [j \in 1..Len(own) |-> own[j].metadata.chunk_sequence_on_page]

\* C28: the chunks of every page carry the sequence numbers 1, 2, ..., n in
\* the order they were emitted, and a page that is blank after stripping
\* emits no chunk.
C28_SequenceWithoutGap ==
    chunker.pc \in {"chunked", "chunked_again"} =>
        \A j \in 1..Len(chunker.pages_data) :
            LET page == chunker.pages_data[j]
                sequence == PageSequence(chunker.all_chunks_data, page.page_number)
            IN  /\ sequence = [k \in 1..Len(sequence) |-> k]
                /\ Strip(page.text_content) = <<>> => sequence = <<>>

\* C29: two chunks that differ in source_document, page_number,
\* sequence_on_page or the first 50 characters of their text have different
\* hashed strings.
C29_HashInputInjective ==
    (chunker.pc = "hashed" /\ KeyOf(chunker.first) # KeyOf(chunker.second)) =>
        chunker.id_content_strings[1] # chunker.id_content_strings[2]

====
